---- MODULE Spec2Model ----
(***************************************************************************)
(* Model of the HelixSoft clinical data processor                          *)
(* (src/Helix/Batch_2_Assignment.py): the FTP gateway                      *)
(* (ClinicalDataProcessor), the validation and archival pipeline           *)
(* (ClinicalDataValidator) and the worker coordination of the GUI          *)
(* (ClinicalDataGUI: is_processing, the daemon threads, status_queue and   *)
(* check_queue).                                                           *)
(***************************************************************************)
EXTENDS Integers, Sequences, FiniteSets, TLC

\* Threads the application starts in one run of the model.
MaxWorkers == 2

\* Files in the list handed to validate_selected_files / process_selected_files.
MaxBatch == 2

Workers == 1..MaxWorkers

Min(a, b) == IF a < b THEN a ELSE b

(***************************************************************************)
(* Strings.  A Python str is a TLA+ string; characters are read with       *)
(* SubSeq.                                                                 *)
(***************************************************************************)
CharAt(s, i) == SubSeq(s, i, i)

Digits == {"0", "1", "2", "3", "4", "5", "6", "7", "8", "9"}

DigitVal(c) ==
    CASE c = "0" -> 0 [] c = "1" -> 1 [] c = "2" -> 2 [] c = "3" -> 3
      [] c = "4" -> 4 [] c = "5" -> 5 [] c = "6" -> 6 [] c = "7" -> 7
      [] c = "8" -> 8 [] c = "9" -> 9

\* str.upper() on the characters that occur in the model's file names.
UpperChar(c) ==
    CASE c = "a" -> "A" [] c = "b" -> "B" [] c = "c" -> "C" [] c = "d" -> "D"
      [] c = "e" -> "E" [] c = "i" -> "I" [] c = "l" -> "L" [] c = "n" -> "N"
      [] c = "s" -> "S" [] c = "t" -> "T" [] c = "v" -> "V" [] c = "x" -> "X"
      [] OTHER -> c

\* str.upper() of s from its i-th character on.
RECURSIVE UpperFrom(_, _)
UpperFrom(s, i) ==
    IF i > Len(s) THEN "" ELSE UpperChar(CharAt(s, i)) \o UpperFrom(s, i + 1)

Upper(s) == UpperFrom(s, 1)

EndsWith(s, suffix) ==
    /\ Len(s) >= Len(suffix)
    /\ SubSeq(s, Len(s) - Len(suffix) + 1, Len(s)) = suffix

\* str.replace(old, new): every non-overlapping occurrence, left to right.
\* The replacement of s from its i-th character on.
RECURSIVE ReplaceFrom(_, _, _, _)
ReplaceFrom(s, i, old, new) ==
    IF Len(s) - i + 1 < Len(old) THEN SubSeq(s, i, Len(s))
    ELSE IF SubSeq(s, i, i + Len(old) - 1) = old
         THEN new \o ReplaceFrom(s, i + Len(old), old, new)
         ELSE CharAt(s, i) \o ReplaceFrom(s, i + 1, old, new)

Replace(s, old, new) == ReplaceFrom(s, 1, old, new)

AllDigits(s) == \A i \in 1..Len(s) : CharAt(s, i) \in Digits

\* Code points of the characters of the model's names, as sorted() compares them.
Ord(c) ==
    CASE c = "." -> 46 [] c = "_" -> 95
      [] c \in Digits -> 48 + DigitVal(c)
      [] c = "A" -> 65 [] c = "B" -> 66 [] c = "C" -> 67 [] c = "D" -> 68
      [] c = "E" -> 69 [] c = "I" -> 73 [] c = "L" -> 76 [] c = "N" -> 78
      [] c = "S" -> 83 [] c = "T" -> 84 [] c = "V" -> 86 [] c = "X" -> 88
      [] c = "a" -> 97 [] c = "b" -> 98 [] c = "c" -> 99 [] c = "d" -> 100
      [] c = "e" -> 101 [] c = "i" -> 105 [] c = "l" -> 108 [] c = "n" -> 110
      [] c = "s" -> 115 [] c = "t" -> 116 [] c = "v" -> 118 [] c = "x" -> 120
      [] OTHER -> 63

\* Python's str < str: the first differing code point decides, a proper
\* prefix is smaller.
RECURSIVE StrLessFrom(_, _, _)
StrLessFrom(a, b, i) ==
    IF i > Len(b) THEN FALSE
    ELSE IF i > Len(a) THEN TRUE
    ELSE IF CharAt(a, i) = CharAt(b, i)
         THEN StrLessFrom(a, b, i + 1)
         ELSE Ord(CharAt(a, i)) < Ord(CharAt(b, i))

StrLess(a, b) == StrLessFrom(a, b, 1)

\* sorted(set of str): the sequence of the set's members in increasing order.
Sorted(S) ==
    [i \in 1..Cardinality(S) |->
        CHOOSE x \in S : Cardinality({y \in S : StrLess(y, x)}) = i - 1]

\* set(seq): the members of a sequence.
Range(seq) == {seq[i] : i \in 1..Len(seq)}

(***************************************************************************)
(* ClinicalDataValidator._validate_filename_pattern                       *)
(***************************************************************************)
\* re.match(r'^CLINICALDATA\d{14}\.CSV$', filename, re.IGNORECASE): the
\* prefix, 14 digits, the extension, then the end of the string ($ also
\* matches before one final newline).
FilenameMatches(filename) ==
    LET FilenamePrefix == "CLINICALDATA"
        FilenameExt == ".CSV"
        n == Len(FilenamePrefix)
        core == n + 14 + Len(FilenameExt)
    IN  /\ \/ Len(filename) = core
           \/ Len(filename) = core + 1 /\ CharAt(filename, core + 1) = "\n"
        /\ Upper(SubSeq(filename, 1, n)) = FilenamePrefix
        /\ AllDigits(SubSeq(filename, n + 1, n + 14))
        /\ Upper(SubSeq(filename, n + 15, core)) = FilenameExt

(***************************************************************************)
(* ClinicalDataValidator._validate_csv_content.  A file's content is       *)
(* [utf8 |-> whether it decodes, rows |-> what csv.reader yields], a row   *)
(* being a sequence of field strings.  An entry of the errors list is      *)
(* [row |-> its row number, defects |-> the messages joined with "; "].    *)
(***************************************************************************)
expected_fields ==
    <<"PatientID", "TrialCode", "DrugCode", "Dosage_mg", "StartDate",
      "EndDate", "Outcome", "SideEffects", "Analyst">>

Outcomes == {"Improved", "No Change", "Worsened"}

\* str.strip() of blanks.
RECURSIVE Strip(_)
Strip(s) ==
    IF s # "" /\ CharAt(s, 1) = " " THEN Strip(SubSeq(s, 2, Len(s)))
    ELSE IF s # "" /\ CharAt(s, Len(s)) = " " THEN Strip(SubSeq(s, 1, Len(s) - 1))
    ELSE s

\* Digits with single underscores between them, as int() accepts.
RECURSIVE DigitGroups(_)
DigitGroups(s) ==
    /\ s # ""
    /\ CharAt(s, 1) \in Digits
    /\ \/ Len(s) = 1
       \/ DigitGroups(SubSeq(s, 2, Len(s)))
       \/ Len(s) > 2 /\ CharAt(s, 2) = "_" /\ DigitGroups(SubSeq(s, 3, Len(s)))

RECURSIVE DigitsValue(_, _)
DigitsValue(s, acc) ==
    IF s = "" THEN acc
    ELSE IF CharAt(s, 1) = "_" THEN DigitsValue(SubSeq(s, 2, Len(s)), acc)
    ELSE DigitsValue(SubSeq(s, 2, Len(s)), 10 * acc + DigitVal(CharAt(s, 1)))

\* int() of a stripped text: ok = FALSE is ValueError.
IntOfStripped(s) ==
    IF s # "" /\ CharAt(s, 1) \in {"+", "-"}
    THEN IF DigitGroups(SubSeq(s, 2, Len(s)))
         THEN [ok |-> TRUE,
               val |-> IF CharAt(s, 1) = "-" THEN 0 - DigitsValue(SubSeq(s, 2, Len(s)), 0)
                       ELSE DigitsValue(SubSeq(s, 2, Len(s)), 0)]
         ELSE [ok |-> FALSE, val |-> 0]
    ELSE IF DigitGroups(s) THEN [ok |-> TRUE, val |-> DigitsValue(s, 0)]
         ELSE [ok |-> FALSE, val |-> 0]

\* int(dosage)
ParseInt(text) == IntOfStripped(Strip(text))

\* Position of the first "-" of s from i on, 0 when there is none.
RECURSIVE FirstDash(_, _)
FirstDash(s, i) ==
    IF i > Len(s) THEN 0
    ELSE IF CharAt(s, i) = "-" THEN i ELSE FirstDash(s, i + 1)

IsLeap(y) == (y % 4 = 0 /\ y % 100 # 0) \/ y % 400 = 0

DaysInMonth(y, m) ==
    IF m = 2 THEN (IF IsLeap(y) THEN 29 ELSE 28)
    ELSE IF m \in {4, 6, 9, 11} THEN 30 ELSE 31

BadDate == [ok |-> FALSE, y |-> 0, m |-> 0, d |-> 0]

\* datetime(y, m, d): ValueError unless it is a date of the calendar.
DateValue(y, m, d) ==
    IF y >= 1 /\ m \in 1..12 /\ d >= 1 /\ d <= DaysInMonth(y, m)
    THEN [ok |-> TRUE, y |-> y, m |-> m, d |-> d]
    ELSE BadDate

\* %d also takes a blank and one digit.
DayDigits(ds) ==
    IF Len(ds) = 2 /\ CharAt(ds, 1) = " " THEN SubSeq(ds, 2, 2) ELSE ds

\* The three parts between the dashes: %Y is four digits, %m and %d one or
\* two.
DateOfParts(ys, ms, ds) ==
    IF /\ Len(ys) = 4 /\ AllDigits(ys)
       /\ Len(ms) \in {1, 2} /\ AllDigits(ms)
       /\ Len(ds) \in {1, 2} /\ AllDigits(ds)
    THEN DateValue(DigitsValue(ys, 0), DigitsValue(ms, 0), DigitsValue(ds, 0))
    ELSE BadDate

DateAfterYear(ys, rest, q) ==
    IF q = 0 THEN BadDate
    ELSE DateOfParts(ys, SubSeq(rest, 1, q - 1), DayDigits(SubSeq(rest, q + 1, Len(rest))))

DateAtDash(text, p) ==
    IF p = 0 THEN BadDate
    ELSE DateAfterYear(SubSeq(text, 1, p - 1), SubSeq(text, p + 1, Len(text)),
                       FirstDash(text, p + 1) - (IF FirstDash(text, p + 1) = 0 THEN 0 ELSE p))

\* datetime.strptime(text, "%Y-%m-%d"); ok = FALSE is ValueError.
ParseDate(text) == DateAtDash(text, FirstDash(text, 1))

\* datetime < datetime.
DateLess(a, b) ==
    \/ a.y < b.y
    \/ a.y = b.y /\ a.m < b.m
    \/ a.y = b.y /\ a.m = b.m /\ a.d < b.d

\* A key that also holds the dosage: what C20 excludes.
RecordKeyWithDosage(row) == row[1] \o "_" \o row[2] \o "_" \o row[3] \o "_" \o row[4]

\* The composite key of a row (line 206).
RecordKey(row) == row[1] \o "_" \o row[2] \o "_" \o row[3]

\* A dosage check whose handler also catches what the try block appended:
\* what C19 excludes.
DosageDefectsTwice(dosage) ==
    IF ~dosage.ok THEN <<"dosage_nonnumeric">>
    ELSE IF dosage.val <= 0 THEN <<"dosage", "dosage_nonnumeric">> ELSE <<>>

\* Lines 185-192.
DosageDefects(dosage) ==
    IF ~dosage.ok THEN <<"dosage_nonnumeric">>
    ELSE IF dosage.val <= 0 THEN <<"dosage">> ELSE <<>>

\* A date check that wants the end after the start: what C21 excludes.
DateDefectsStrict(sd, ed) ==
    IF ~ed.ok \/ ~sd.ok THEN <<"date_format">>
    ELSE IF ~DateLess(sd, ed) THEN <<"date_range">> ELSE <<>>

\* Lines 194-200.
DateDefects(sd, ed) ==
    IF ~ed.ok \/ ~sd.ok THEN <<"date_format">>
    ELSE IF DateLess(ed, sd) THEN <<"date_range">> ELSE <<>>

\* A scan of a row that stops at its first defect: what C18 excludes.
RowDefectsFirstOnly(row, seen) ==
    IF \E i \in 1..9 : row[i] = "" THEN <<"missing_fields">>
    ELSE IF DosageDefects(ParseInt(row[4])) # <<>> THEN DosageDefects(ParseInt(row[4]))
    ELSE IF DateDefects(ParseDate(row[5]), ParseDate(row[6])) # <<>>
         THEN DateDefects(ParseDate(row[5]), ParseDate(row[6]))
    ELSE IF row[7] \notin Outcomes THEN <<"outcome">>
    ELSE IF RecordKey(row) \in seen THEN <<"duplicate">> ELSE <<>>

\* The defects of one 9-field row, in the order the code appends them
\* (lines 180-211); seen is seen_records before the row.
RowDefects(row, seen) ==
    (IF \E i \in 1..9 : row[i] = "" THEN <<"missing_fields">> ELSE <<>>)
    \o DosageDefects(ParseInt(row[4]))
    \o DateDefects(ParseDate(row[5]), ParseDate(row[6]))
    \o (IF row[7] \notin Outcomes THEN <<"outcome">> ELSE <<>>)
    \o (IF RecordKey(row) \in seen THEN <<"duplicate">> ELSE <<>>)

\* The errors list after a row: one entry when the row has defects.
WithRowErrors(errors, i, record_errors) ==
    IF record_errors # <<>>
    THEN Append(errors, [row |-> i, defects |-> record_errors])
    ELSE errors

\* The loop over the data rows (lines 168-216): rows[i..], with the errors,
\* the count of valid records and seen_records so far.
RECURSIVE ScanRows(_, _, _, _, _)
ScanRows(rows, i, errors, valid_records, seen) ==
    IF i > Len(rows) THEN [errors |-> errors, valid_records |-> valid_records]
    ELSE IF Len(rows[i]) # 9
         THEN ScanRows(rows, i + 1,
                       Append(errors, [row |-> i, defects |-> <<"field_count">>]),
                       valid_records, seen)
         ELSE ScanRows(rows, i + 1,
                       WithRowErrors(errors, i, RowDefects(rows[i], seen)),
                       IF RowDefects(rows[i], seen) = <<>>
                       THEN valid_records + 1 ELSE valid_records,
                       seen \cup {RecordKey(rows[i])})

\* Number of rows whose defects include one of the category (error_counts).
CategoryCount(errors, cats) ==
    Cardinality({i \in 1..Len(errors) :
                    \E j \in 1..Len(errors[i].defects) : errors[i].defects[j] \in cats})

Note(kind, n) == [kind |-> kind, n |-> n]

\* An event of a category when it counts an error (lines 222-233).
CategoryNote(kind, count) == IF count > 0 THEN <<Note(kind, count)>> ELSE <<>>

\* A verdict that is valid as soon as one row is: what C17 excludes.
ScanVerdictByCount(content, scan) ==
    [valid |-> scan.errors = <<>> \/ scan.valid_records > 0,
     errors |-> scan.errors, count |-> scan.valid_records, notes |-> <<>>]

\* What is returned when the file fails as a whole.
FileError(kind, notes) ==
    [valid |-> FALSE, errors |-> <<[row |-> 0, defects |-> <<kind>>]>>,
     count |-> 0, notes |-> notes]

\* What is returned after the scan of the rows (lines 218-237).
ScanVerdict(content, scan) ==
    [valid |-> scan.errors = <<>>, errors |-> scan.errors,
     count |-> scan.valid_records,
     notes |-> <<Note("validating_content", 0),
                 Note("header_valid", Len(content.rows[1])),
                 Note("scanned", Len(content.rows) - 1),
                 Note("valid_records", scan.valid_records)>>
               \o CategoryNote("dosage_errors",
                               CategoryCount(scan.errors, {"dosage", "dosage_nonnumeric"}))
               \o CategoryNote("date_range_errors", CategoryCount(scan.errors, {"date_range"}))
               \o CategoryNote("date_format_errors", CategoryCount(scan.errors, {"date_format"}))
               \o CategoryNote("outcome_errors", CategoryCount(scan.errors, {"outcome"}))
               \o CategoryNote("duplicates", CategoryCount(scan.errors, {"duplicate"}))
               \o CategoryNote("missing_fields", CategoryCount(scan.errors, {"missing_fields"}))]

\* A validator that scans the rows whatever the first row is: what C16
\* excludes.
ValidateCsvContentAnyHeader(content, readable) ==
    IF content.rows = <<>> THEN FileError("empty", <<>>)
    ELSE ScanVerdict(content, ScanRows(content.rows, 2, <<>>, 0, {}))

\* What _validate_csv_content returns for a file, (is_valid, errors,
\* record_count), and notes: the events it puts, in order, each with the
\* number its message shows.  readable = FALSE is an exception of open() or
\* of the read.
ValidateCsvContent(content, readable) ==
    IF ~readable THEN FileError("read_error", <<Note("validating_content", 0)>>)
    ELSE IF ~content.utf8 THEN FileError("not_utf8", <<Note("validating_content", 0)>>)
    ELSE IF content.rows = <<>>
         THEN FileError("empty", <<Note("validating_content", 0), Note("file_empty", 0)>>)
    ELSE IF content.rows[1] # expected_fields
         THEN FileError("header", <<Note("validating_content", 0), Note("header_mismatch", 0)>>)
    ELSE ScanVerdict(content, ScanRows(content.rows, 2, <<>>, 0, {}))

\* The severity tag of each event of _validate_csv_content.
NoteTag(kind) ==
    IF kind \in {"validating_content", "scanned"} THEN "info"
    ELSE IF kind \in {"header_valid", "valid_records"} THEN "success"
    ELSE "error"

(***************************************************************************)
(* The files of the FTP server and what they hold.                         *)
(***************************************************************************)
GoodRow(pid) ==
    <<pid, "T1", "D1", "10", "2024-01-01", "2024-01-02", "Improved", "None", "A">>

F_OK == "CLINICALDATA20250101120000.CSV"

F_DATE == "CLINICALDATA20250101120001.CSV"

F_MANY == "clinicaldata20250101120002.csv"

F_BAD == "BAD.csv"

ServerFiles == {F_OK, F_DATE, F_MANY, F_BAD}

\* F_OK: one conforming row.  F_DATE: one row whose EndDate is before its
\* StartDate.  F_MANY: four defective rows among five.  F_BAD: a name the
\* pattern rejects.
ContentOf(filename) ==
    CASE filename = F_DATE ->
           [utf8 |-> TRUE,
            rows |-> <<expected_fields,
                       <<"P1", "T1", "D1", "10", "2024-01-02", "2024-01-01",
                         "Improved", "None", "A">> >>]
      [] filename = F_MANY ->
           [utf8 |-> TRUE,
            rows |-> <<expected_fields,
                       <<"P1", "T1", "D1">>,
                       <<"P2", "T1", "D1", "abc", "2024-01-01", "2024-01-02",
                         "Improved", "None", "A">>,
                       <<"P3", "T1", "D1", "10", "2024-01-01", "2024-01-02",
                         "Cured", "None", "A">>,
                       GoodRow("P4"),
                       GoodRow("P4")>>]
      [] OTHER -> [utf8 |-> TRUE, rows |-> <<expected_fields, GoodRow("P1")>>]

\* _validate_csv_content on each file of the server, with the file readable
\* or not.
ContentVerdict ==
    [f \in ServerFiles |->
        [readable \in BOOLEAN |-> ValidateCsvContent(ContentOf(f), readable)]]

\* datetime.now().strftime("%Y%m%d") on the days the model runs on.
Dates == {"20250105"}

(***************************************************************************)
(* The registry file processed_files.txt: its text.                        *)
(***************************************************************************)
\* "\n".join(lines)
RECURSIVE JoinLines(_)
JoinLines(lines) ==
    IF lines = <<>> THEN ""
    ELSE IF Len(lines) = 1 THEN lines[1]
    ELSE lines[1] \o "\n" \o JoinLines(Tail(lines))

\* str.splitlines(): the text cut at "\n", "\r" and "\r\n"; no empty last
\* line after a final line break.  LineEnds are the places where a line
\* break ends.
LineEnds(text) ==
    {i \in 1..Len(text) :
        \/ CharAt(text, i) = "\n"
        \/ CharAt(text, i) = "\r" /\ (i = Len(text) \/ CharAt(text, i + 1) # "\n")}

\* The place of the k-th of them; 0 for k = 0.
LineEnd(text, k) ==
    IF k = 0 THEN 0
    ELSE CHOOSE e \in LineEnds(text) : Cardinality({x \in LineEnds(text) : x < e}) = k - 1

\* The k-th line that ends in a line break, without its line break.
LineAt(text, k) ==
    SubSeq(text, LineEnd(text, k - 1) + 1,
           LineEnd(text, k)
             - (IF LineEnd(text, k) > 1
                   /\ SubSeq(text, LineEnd(text, k) - 1, LineEnd(text, k)) = "\r\n"
                THEN 2 ELSE 1))

SplitLines(text) ==
    [k \in 1..Cardinality(LineEnds(text)) |-> LineAt(text, k)]
    \o (IF LineEnd(text, Cardinality(LineEnds(text))) < Len(text)
        THEN <<SubSeq(text, LineEnd(text, Cardinality(LineEnds(text))) + 1, Len(text))>>
        ELSE <<>>)

(***************************************************************************)
(* State.                                                                  *)
(***************************************************************************)
VARIABLES
    is_processing,       \* ClinicalDataGUI.is_processing
    processor,           \* ClinicalDataGUI.processor and its ftp, connected
    all_files,           \* ClinicalDataGUI.all_files
    displayed_files,     \* ClinicalDataGUI.displayed_files (the listbox rows)
    selection,           \* file_listbox.curselection(): a row, 0 when none
    buttons,             \* which buttons are in state NORMAL
    after_queue,         \* callbacks scheduled with root.after(0, ...)
    validator,           \* ClinicalDataGUI.validator: the latest one, 0 is None
    validators,          \* each ClinicalDataValidator's processed_files
    wk,                  \* the threads: what each runs and where it is
    status_queue,        \* ClinicalDataGUI.status_queue
    produced,            \* history: the events each thread has put
    recv,                \* history: the events check_queue has got, per thread
    download_dir,        \* names of the files in the download directory
    archive_dir,         \* names of the files in the archive directory
    error_dir,           \* names of the files in the error directory
    processed_files_log, \* processed_files.txt
    error_log,           \* the lines of error_report.log
    next_guid,           \* uuid4: the identifiers generated so far
    today,               \* the date datetime.now() shows
    moved,               \* history: names whose move into the archive succeeded
    audit,               \* history: per thread, how each file of its list ended
    call                 \* a call of a validator method on its own: arguments, result

guiVars == <<is_processing, all_files, displayed_files, selection, buttons,
             after_queue, validator>>

chanVars == <<status_queue, produced, recv>>

dirVars == <<download_dir, archive_dir, error_dir, moved>>

logVars == <<error_log, next_guid>>

vars == <<is_processing, processor, all_files, displayed_files, selection,
          buttons, after_queue, validator, validators, wk, status_queue,
          produced, recv, download_dir, archive_dir, error_dir,
          processed_files_log, error_log, next_guid, today, moved, audit, call>>

\* No method is called on its own.
NoCall == [fn |-> "none"]

(***************************************************************************)
(* Status events: (message, tag) tuples.  kind names the message, file, n, *)
(* m and err are what the message shows; run is the thread that put it     *)
(* (history).                                                              *)
(***************************************************************************)
Ev(tag, kind, file, n, m) ==
    [tag |-> tag, kind |-> kind, file |-> file, n |-> n, m |-> m,
     err |-> [row |-> 0, defects |-> <<>>]]

EvBullet(err) ==
    [tag |-> "error", kind |-> "bullet", file |-> "", n |-> 0, m |-> 0, err |-> err]

Simple(tag, kind) == Ev(tag, kind, "", 0, 0)

Stamp(w, evs) == [i \in 1..Len(evs) |-> [run |-> w] @@ evs[i]]

\* queue.Queue.put of each event of evs, in order.
QueuePutAll(q, evs) == q \o evs

\* A queue that hands out its newest item first: what C4 excludes.
QueueGetNewest(q) == q[Len(q)]

\* queue.Queue.get_nowait: the item it returns, the oldest; the queue is left
\* without it.
QueueGet(q) == Head(q)

\* The thread w puts the events evs.
Put(w, evs) ==
    /\ status_queue' = QueuePutAll(status_queue, Stamp(w, evs))
    /\ produced' = [produced EXCEPT ![w] = @ \o Stamp(w, evs)]
    /\ UNCHANGED recv

\* The events of a sequence that the thread w put.
OfRun(evs, w) == SelectSeq(evs, LAMBDA e : e.run = w)

NoteEvents(notes) ==
    [i \in 1..Len(notes) |-> Ev(NoteTag(notes[i].kind), notes[i].kind, "", notes[i].n, 0)]

(***************************************************************************)
(* ClinicalDataProcessor: made is whether the GUI has built it; ftp is     *)
(* "none" (None), "live" (a logged-in session) or "dead" (a session that   *)
(* was quit, was dropped or never logged in).                              *)
(***************************************************************************)
NoProcessor == [made |-> FALSE, ftp |-> "none", connected |-> FALSE, remote_dir |-> ""]

ConnectOutcomes == {"ok", "fail_open", "fail_login", "fail_pwd"}

\* A connect for which the remote directory is not optional: what C26
\* excludes.
ConnectCwdFatal(p, outcome, cwd_ok) ==
    IF outcome = "ok" /\ (cwd_ok \/ p.remote_dir = "")
    THEN [processor |-> [p EXCEPT !.ftp = "live", !.connected = TRUE],
          events |-> <<Simple("success", "connection_successful"),
                       Simple("info", "current_directory")>>,
          ok |-> TRUE]
    ELSE [processor |-> [p EXCEPT !.ftp = "dead", !.connected = FALSE],
          events |-> <<Simple("error", "connection_failed")>>, ok |-> FALSE]

\* connect(status_queue): the processor after it, the events put and the
\* value returned.  outcome says which call raises; cwd_ok whether
\* ftp.cwd(remote_dir) succeeds.
Connect(p, outcome, cwd_ok) ==
    LET warn == IF p.remote_dir # "" /\ ~cwd_ok
                THEN <<Simple("warning", "cwd_failed")>> ELSE <<>>
        failed == <<Simple("error", "connection_failed")>>
    IN  CASE outcome = "ok" ->
               [processor |-> [p EXCEPT !.ftp = "live", !.connected = TRUE],
                events |-> warn \o <<Simple("success", "connection_successful"),
                                     Simple("info", "current_directory")>>,
                ok |-> TRUE]
          [] outcome = "fail_open" ->
               [processor |-> [p EXCEPT !.ftp = IF p.ftp = "none" THEN "none" ELSE "dead",
                                        !.connected = FALSE],
                events |-> failed, ok |-> FALSE]
          [] outcome = "fail_login" ->
               [processor |-> [p EXCEPT !.ftp = "dead", !.connected = FALSE],
                events |-> failed, ok |-> FALSE]
          [] outcome = "fail_pwd" ->
               [processor |-> [p EXCEPT !.ftp = "dead", !.connected = FALSE],
                events |-> warn \o <<Simple("success", "connection_successful")>> \o failed,
                ok |-> FALSE]

\* A disconnect that lets the failure of ftp.quit() out: what C27 excludes.
DisconnectRaisedOnQuit(p, quit_ok) == p.ftp # "none" /\ ~quit_ok

\* Whether disconnect() raises: `if self.ftp` cannot, and ftp.quit() is in
\* a try whose bare except passes (lines 57-62).
DisconnectRaised(p, quit_ok) == FALSE

\* A listing that keeps the names that end in .csv as written: what C25
\* excludes.
CsvFilesLowerCase(names) == {f \in names : EndsWith(f, ".csv")}

\* disconnect(): quit_ok is whether ftp.quit() returns.
Disconnect(p, quit_ok) ==
    IF p.ftp = "none" THEN p
    ELSE IF quit_ok THEN [p EXCEPT !.ftp = "dead", !.connected = FALSE]
    ELSE [p EXCEPT !.ftp = "dead"]

\* The names of the server that end in .CSV in any case (line 73).
CsvFiles(names) == {f \in names : EndsWith(Upper(f), ".CSV")}

\* get_file_list(status_queue): the list returned and the events put.
\* nlst_ok is whether ftp.nlst() returns.
GetFileList(p, names, nlst_ok) ==
    IF p.ftp = "none" \/ ~p.connected
    THEN [files |-> <<>>, events |-> <<Simple("error", "not_connected")>>]
    ELSE IF ~nlst_ok
    THEN [files |-> <<>>, events |-> <<Simple("error", "list_failed")>>]
    ELSE LET csv_files == CsvFiles(names)
         IN  [files |-> Sorted(csv_files),
              events |-> IF csv_files # {}
                         THEN <<Ev("success", "found_csv_files", "", Cardinality(csv_files), 0)>>
                         ELSE <<Simple("warning", "no_csv_files")>>]

\* Whether a call on the session (nlst, retrbinary) can return.
SessionWorks(p) == p.ftp = "live"

(***************************************************************************)
(* ClinicalDataValidator: the registry and the error log.                  *)
(***************************************************************************)
NoRegistryFile == [exists |-> FALSE, text |-> ""]

\* _load_processed_files
LoadProcessedFiles(log) ==
    IF log.exists THEN Range(SplitLines(log.text)) ELSE {}

\* The text _save_processed_file writes for the in-memory set.
RegistryText(processed_files) == JoinLines(Sorted(processed_files))

\* An add that keeps the new name alone: what C23 excludes.
RegistryAddOnly(processed_files, filename) == {filename}

\* The set _save_processed_file leaves in memory (line 105).
RegistryAdd(processed_files, filename) == processed_files \cup {filename}

\* _save_processed_file: outcome "ok" writes the file; "open_fails" leaves
\* it as it is; "write_fails" leaves it truncated.
SaveProcessedFile(v, filename, outcome) ==
    /\ validators' = [validators EXCEPT ![v] = RegistryAdd(@, filename)]
    /\ processed_files_log' =
         CASE outcome = "ok" ->
                [exists |-> TRUE, text |-> RegistryText(RegistryAdd(validators[v], filename))]
           [] outcome = "write_fails" -> [exists |-> TRUE, text |-> ""]
           [] OTHER -> processed_files_log

\* The entry _log_error appends.
LogEntry(guid, filename, message) == [guid |-> guid, file |-> filename, msg |-> message]

\* The text of the entry (line 114), the timestamp being that of the call.
LogLine(timestamp, guid, filename, message) ==
    "[" \o timestamp \o "] GUID: " \o guid \o " | File: " \o filename
        \o " | Error: " \o message \o "\n"

\* _log_error: a guid is generated, then the entry is appended (ok) or the
\* open fails.
LogError(filename, message, ok) ==
    /\ next_guid' = next_guid + 1
    /\ error_log' = IF ok THEN Append(error_log, LogEntry(next_guid + 1, filename, message))
                    ELSE error_log

Message(kind) == [kind |-> kind, joined |-> <<>>, more |-> 0]

\* A summary that joins every error and counts none as remaining: what C10
\* excludes.
ErrorSummaryAll(errors) == [kind |-> "errors", joined |-> errors, more |-> 0]

\* The message of a content rejection (lines 339-341): the first three
\* errors joined with " | ", and the number of the others when there are.
ErrorSummary(errors) ==
    [kind |-> "errors",
     joined |-> SubSeq(errors, 1, Min(3, Len(errors))),
     more |-> IF Len(errors) > 3 THEN Len(errors) - 3 ELSE 0]

\* The name of the archived file (lines 318-320).
ArchiveFilename(filename, current_date) ==
    Replace(Replace(filename, ".CSV", ""), ".csv", "") \o "_" \o current_date \o ".CSV"

\* The temporary copy of validate mode (line 257).
TempName(filename) == "temp_validate_" \o filename

(***************************************************************************)
(* The threads.  kind is the operation a thread runs ("none" before it is  *)
(* started), pc where it is; files, i, v and the counts are the arguments  *)
(* and locals of validate_selected_files / process_selected_files: the     *)
(* list, the position of the file being handled, the validator (self) and  *)
(* the four counters; result is what _validate_csv_content returned for    *)
(* the file; raised names the call whose exception is being handled.       *)
(***************************************************************************)
NoResult == [valid |-> FALSE, errors |-> <<>>, count |-> 0, notes |-> <<>>]

IdleWorker ==
    [kind |-> "none", pc |-> "none", files |-> <<>>, i |-> 1, v |-> 0,
     processed_count |-> 0, error_count |-> 0, valid_count |-> 0,
     invalid_count |-> 0, result |-> NoResult, raised |-> ""]

NoAudit == [done |-> <<>>, log0 |-> 0, ok0 |-> 0, err0 |-> 0, ev0 |-> 0]

Running(w) == wk[w].kind # "none" /\ wk[w].pc # "finished"

CurrentFile(w) == wk[w].files[wk[w].i]

\* A loop that passes over the file after the one it has handled: what C5
\* excludes.
NextFileButOne(me) ==
    [me EXCEPT !.i = @ + 2, !.pc = "loop", !.result = NoResult, !.raised = ""]

\* continue: on to the next file of the list.
NextFile(me) == [me EXCEPT !.i = @ + 1, !.pc = "loop", !.result = NoResult, !.raised = ""]

Raise(me, pc, origin) == [me EXCEPT !.pc = pc, !.raised = origin]

\* History: the handling of a file begins.
AuditBegin(w) ==
    audit' = [audit EXCEPT ![w] =
                [@ EXCEPT !.log0 = Len(error_log),
                          !.ok0 = wk[w].processed_count + wk[w].valid_count,
                          !.err0 = wk[w].error_count + wk[w].invalid_count,
                          !.ev0 = Len(produced[w])]]

\* History: the handling of the file ends with the outcome; what was logged,
\* counted and put since base, and where the file is then.  Written after
\* the action's other conjuncts.
AuditEndFrom(w, outcome, base) ==
    audit' = [audit EXCEPT ![w].done =
                Append(@, [file |-> CurrentFile(w), outcome |-> outcome,
                           logged |-> Len(error_log') - base.log0,
                           log_to |-> Len(error_log'),
                           ok |-> wk'[w].processed_count + wk'[w].valid_count - base.ok0,
                           err |-> wk'[w].error_count + wk'[w].invalid_count - base.err0,
                           from |-> base.ev0 + 1,
                           to |-> Len(produced'[w]),
                           in_download |-> CurrentFile(w) \in download_dir',
                           in_temp |-> TempName(CurrentFile(w)) \in download_dir',
                           in_error |-> CurrentFile(w) \in error_dir',
                           in_registry |-> CurrentFile(w) \in validators'[wk[w].v]])]

AuditEnd(w, outcome) == AuditEndFrom(w, outcome, audit[w])

AuditNow(w) ==
    [log0 |-> Len(error_log),
     ok0 |-> wk[w].processed_count + wk[w].valid_count,
     err0 |-> wk[w].error_count + wk[w].invalid_count,
     ev0 |-> Len(produced[w])]

\* The outcome of a file whose exception the outer handler took.
FailureOutcome(origin) ==
    CASE origin = "download" -> "DownloadFailed"
      [] origin = "move" -> "MoveFailed"
      [] origin = "log" -> "LogFailed"
      [] OTHER -> "CleanupFailed"

Separator == Simple("info", "separator")

(***************************************************************************)
(* _validate_selected_worker / _process_selected_worker, first lines:      *)
(* connect when the processor is not connected (lines 706-707, 753-754),   *)
(* then call the validator that self.validator names at that moment        *)
(* (lines 709, 756).                                                       *)
(***************************************************************************)
\* if not self.processor.connected: self.processor.connect(status_queue)
ConnectIfNeeded(w) ==
    IF processor.connected
    THEN UNCHANGED <<processor, chanVars>>
    ELSE \E outcome \in ConnectOutcomes :
           /\ processor' = Connect(processor, outcome, TRUE).processor
           /\ Put(w, Connect(processor, outcome, TRUE).events)

PipelineStart(w) ==
    /\ wk[w].kind \in {"validate", "process"}
    /\ wk[w].pc = "start"
    /\ ConnectIfNeeded(w)
    /\ wk' = [wk EXCEPT ![w].pc = "call"]
    /\ UNCHANGED <<guiVars, validators, dirVars, logVars, processed_files_log,
                   today, call, audit>>

PipelineCall(w) ==
    /\ wk[w].kind \in {"validate", "process"}
    /\ wk[w].pc = "call"
    /\ wk' = [wk EXCEPT ![w] = [@ EXCEPT !.pc = "loop", !.v = validator]]
    /\ UNCHANGED <<guiVars, processor, chanVars, validators, dirVars, logVars,
                   processed_files_log, today, call, audit>>

(***************************************************************************)
(* process_selected_files (lines 283-357)                                  *)
(***************************************************************************)
\* A skip that counts the file as an error: what C7 excludes.
SkipCounted(w, kind) ==
    /\ UNCHANGED <<guiVars, processor, validators, dirVars, logVars,
                   processed_files_log, today, call>>
    /\ wk[w].kind = kind
    /\ wk[w].pc = "loop"
    /\ wk[w].i <= Len(wk[w].files)
    /\ CurrentFile(w) \in validators[wk[w].v]
    /\ Put(w, <<Ev("warning", "skipping", CurrentFile(w), 0, 0)>>)
    /\ wk' = [wk EXCEPT ![w] =
                NextFile([@ EXCEPT !.error_count = @ + 1, !.invalid_count = @ + 1])]
    /\ AuditEndFrom(w, "Skipped", AuditNow(w))

\* Lines 289-291 (and 250-252): a file of the registry is skipped.
Skip(w, kind) ==
    /\ UNCHANGED <<guiVars, processor, validators, dirVars, logVars,
                   processed_files_log, today, call>>
    /\ wk[w].kind = kind
    /\ wk[w].pc = "loop"
    /\ wk[w].i <= Len(wk[w].files)
    /\ CurrentFile(w) \in validators[wk[w].v]
    /\ Put(w, <<Ev("warning", "skipping", CurrentFile(w), 0, 0)>>)
    /\ wk' = [wk EXCEPT ![w] = NextFile(@)]
    /\ AuditEndFrom(w, "Skipped", AuditNow(w))

ProcessSkip(w) == Skip(w, "process")

\* Lines 293-301: the file is announced and downloaded.  open() may fail,
\* or retrbinary after open() has created the local file.
ProcessDownload(w) ==
    /\ UNCHANGED <<guiVars, processor, validators, archive_dir, error_dir, moved,
                   logVars, processed_files_log, today, call>>
    /\ wk[w].kind = "process"
    /\ wk[w].pc = "loop"
    /\ wk[w].i <= Len(wk[w].files)
    /\ CurrentFile(w) \notin validators[wk[w].v]
    /\ \E o \in {"ok", "open_fails", "retr_fails"} :
         /\ o = "ok" => SessionWorks(processor)
         /\ download_dir' = IF o = "open_fails" THEN download_dir
                            ELSE download_dir \cup {CurrentFile(w)}
         /\ Put(w, <<Separator, Ev("info", "processing", CurrentFile(w), 0, 0)>>
                   \o IF o = "ok" THEN <<Simple("success", "downloaded")>> ELSE <<>>)
         /\ wk' = [wk EXCEPT ![w] = IF o = "ok" THEN [@ EXCEPT !.pc = "filename"]
                                    ELSE Raise(@, "fatal", "download")]
    /\ AuditBegin(w)

\* _validate_filename_pattern with a status_queue (lines 121-130).
FilenameEvent(is_valid) ==
    IF is_valid THEN Simple("success", "pattern_valid")
    ELSE Simple("error", "pattern_invalid")

\* A pipeline that validates the content whatever the name: what C9
\* excludes.
ProcessFilenameUnchecked(w) ==
    /\ wk[w].kind = "process"
    /\ wk[w].pc = "filename"
    /\ Put(w, <<FilenameEvent(FilenameMatches(CurrentFile(w)))>>)
    /\ wk' = [wk EXCEPT ![w].pc = "content"]
    /\ UNCHANGED <<guiVars, processor, validators, dirVars, logVars,
                   processed_files_log, today, call, audit>>

\* Line 304.
ProcessFilename(w) ==
    /\ wk[w].kind = "process"
    /\ wk[w].pc = "filename"
    /\ LET is_valid == FilenameMatches(CurrentFile(w))
       IN  /\ Put(w, <<FilenameEvent(is_valid)>>)
           /\ wk' = [wk EXCEPT ![w].pc = IF is_valid THEN "content" ELSE "reject_move"]
    /\ UNCHANGED <<guiVars, processor, validators, dirVars, logVars,
                   processed_files_log, today, call, audit>>

\* local_path.rename(error_file) (lines 305-306 and 336-337): the file moves
\* from the download directory to the error directory, or the call raises.
MoveToErrorDir(w, from, to) ==
    /\ wk[w].kind = "process"
    /\ wk[w].pc = from
    /\ \E ok \in BOOLEAN :
         /\ ok => CurrentFile(w) \in download_dir
         /\ download_dir' = IF ok THEN download_dir \ {CurrentFile(w)} ELSE download_dir
         /\ error_dir' = IF ok THEN error_dir \cup {CurrentFile(w)} ELSE error_dir
         /\ wk' = [wk EXCEPT ![w] = IF ok THEN [@ EXCEPT !.pc = to]
                                    ELSE Raise(@, "fatal", "move")]
    /\ UNCHANGED <<guiVars, processor, validators, archive_dir, moved, chanVars,
                   logVars, processed_files_log, today, call, audit>>

ProcessRejectMove(w) == MoveToErrorDir(w, "reject_move", "reject_log")

\* Lines 307-310.
ProcessRejectLog(w) ==
    /\ UNCHANGED <<guiVars, processor, validators, dirVars, processed_files_log, today, call>>
    /\ wk[w].kind = "process"
    /\ wk[w].pc = "reject_log"
    /\ \E ok \in BOOLEAN :
         /\ LogError(CurrentFile(w), Message("Invalid filename pattern"), ok)
         /\ IF ok
            THEN /\ Put(w, <<Ev("error", "rejected_pattern", "", next_guid + 1, 0)>>)
                 /\ wk' = [wk EXCEPT ![w] = NextFile([@ EXCEPT !.error_count = @ + 1])]
                 /\ AuditEnd(w, "FilenameRejected")
            ELSE /\ wk' = [wk EXCEPT ![w] = Raise(@, "fatal", "log")]
                 /\ UNCHANGED <<chanVars, audit>>

\* Line 313-315: the thread with the verdict r on its file.
ContentChecked(me, r) ==
    [me EXCEPT !.result = r, !.pc = IF r.valid THEN "archive_move" ELSE "invalid_move"]

\* Line 313: _validate_csv_content on the local file.
ProcessContent(w) ==
    /\ wk[w].kind = "process"
    /\ wk[w].pc = "content"
    /\ \E readable \in BOOLEAN :
         /\ readable => CurrentFile(w) \in download_dir
         /\ wk' = [wk EXCEPT ![w] =
                     ContentChecked(@, ContentVerdict[CurrentFile(w)][readable])]
         /\ Put(w, NoteEvents(wk'[w].result.notes))
    /\ UNCHANGED <<guiVars, processor, validators, dirVars, logVars,
                   processed_files_log, today, call, audit>>

\* Lines 318-323: the move into the archive directory.
ProcessArchiveMove(w) ==
    /\ wk[w].kind = "process"
    /\ wk[w].pc = "archive_move"
    /\ \E ok \in BOOLEAN :
         /\ ok => CurrentFile(w) \in download_dir
         /\ download_dir' = IF ok THEN download_dir \ {CurrentFile(w)} ELSE download_dir
         /\ archive_dir' = IF ok THEN archive_dir \cup {ArchiveFilename(CurrentFile(w), today)}
                           ELSE archive_dir
         /\ moved' = IF ok THEN moved \cup {CurrentFile(w)} ELSE moved
         /\ wk' = [wk EXCEPT ![w] = IF ok THEN [@ EXCEPT !.pc = "archive_save"]
                                    ELSE Raise(@, "archive_failed", "move")]
    /\ UNCHANGED <<guiVars, processor, validators, error_dir, chanVars, logVars,
                   processed_files_log, today, call, audit>>

\* Lines 324-327: the registry, then the event and the count.
ProcessArchiveSave(w) ==
    /\ UNCHANGED <<guiVars, processor, dirVars, logVars, today, call>>
    /\ wk[w].kind = "process"
    /\ wk[w].pc = "archive_save"
    /\ \E o \in {"ok", "open_fails", "write_fails"} :
         /\ SaveProcessedFile(wk[w].v, CurrentFile(w), o)
         /\ IF o = "ok"
            THEN /\ Put(w, <<Ev("success", "archived",
                                ArchiveFilename(CurrentFile(w), today),
                                wk[w].result.count, 0)>>)
                 /\ wk' = [wk EXCEPT ![w] = NextFile([@ EXCEPT !.processed_count = @ + 1])]
                 /\ AuditEnd(w, "Archived")
            ELSE /\ wk' = [wk EXCEPT ![w] = Raise(@, "archive_failed", "save")]
                 /\ UNCHANGED <<chanVars, audit>>

\* Lines 328-333: the handler of a failed archive step.
ProcessArchiveFailed(w) ==
    /\ UNCHANGED <<guiVars, processor, validators, archive_dir, error_dir, moved,
                   processed_files_log, today, call>>
    /\ wk[w].kind = "process"
    /\ wk[w].pc = "archive_failed"
    /\ \E log_ok, unlink_ok \in BOOLEAN :
         /\ LogError(CurrentFile(w), Message("Archival failed"), log_ok)
         /\ (~log_ok \/ CurrentFile(w) \notin download_dir) => unlink_ok
         /\ IF ~log_ok
            THEN /\ wk' = [wk EXCEPT ![w] = Raise(@, "fatal", "log")]
                 /\ UNCHANGED <<chanVars, download_dir, audit>>
            ELSE /\ Put(w, <<Ev("error", "archival_error", "", next_guid + 1, 0)>>)
                 /\ IF unlink_ok
                    THEN /\ download_dir' = download_dir \ {CurrentFile(w)}
                         /\ wk' = [wk EXCEPT ![w] = NextFile([@ EXCEPT !.error_count = @ + 1])]
                         /\ AuditEnd(w, "ArchiveFailed")
                    ELSE /\ wk' = [wk EXCEPT ![w] =
                                     Raise([@ EXCEPT !.error_count = @ + 1], "fatal", "unlink")]
                         /\ UNCHANGED <<download_dir, audit>>

ProcessInvalidMove(w) == MoveToErrorDir(w, "invalid_move", "invalid_log")

\* Lines 339-348.
ProcessInvalidLog(w) ==
    /\ UNCHANGED <<guiVars, processor, validators, dirVars, processed_files_log, today, call>>
    /\ wk[w].kind = "process"
    /\ wk[w].pc = "invalid_log"
    /\ \E ok \in BOOLEAN :
         LET errors == wk[w].result.errors
         IN  /\ LogError(CurrentFile(w), ErrorSummary(errors), ok)
             /\ IF ok
                THEN /\ Put(w, <<Ev("error", "rejected", "", Len(errors), 0)>>
                               \o [k \in 1..Min(3, Len(errors)) |-> EvBullet(errors[k])])
                     /\ wk' = [wk EXCEPT ![w] = NextFile([@ EXCEPT !.error_count = @ + 1])]
                     /\ AuditEnd(w, "ContentRejected")
                ELSE /\ wk' = [wk EXCEPT ![w] = Raise(@, "fatal", "log")]
                     /\ UNCHANGED <<chanVars, audit>>

\* A handler that leaves the partial file where it is: what C13 excludes.
ProcessFatalKeepsFile(w) ==
    /\ UNCHANGED <<guiVars, processor, validators, dirVars, logVars,
                   processed_files_log, today, call>>
    /\ wk[w].kind = "process"
    /\ wk[w].pc = "fatal"
    /\ Put(w, <<Simple("error", "fatal_error")>>)
    /\ wk' = [wk EXCEPT ![w] = NextFile([@ EXCEPT !.error_count = @ + 1])]
    /\ AuditEnd(w, FailureOutcome(wk[w].raised))

\* Lines 349-353: the handler of every other exception of the file.  When
\* the unlink raises too, the exception leaves process_selected_files.
ProcessFatal(w) ==
    /\ UNCHANGED <<guiVars, processor, validators, archive_dir, error_dir, moved,
                   logVars, processed_files_log, today, call>>
    /\ wk[w].kind = "process"
    /\ wk[w].pc = "fatal"
    /\ Put(w, <<Simple("error", "fatal_error")>>)
    /\ \E unlink_ok \in BOOLEAN :
         /\ CurrentFile(w) \notin download_dir => unlink_ok
         /\ IF unlink_ok
            THEN /\ download_dir' = download_dir \ {CurrentFile(w)}
                 /\ wk' = [wk EXCEPT ![w] = NextFile([@ EXCEPT !.error_count = @ + 1])]
                 /\ AuditEnd(w, FailureOutcome(wk[w].raised))
            ELSE /\ UNCHANGED download_dir
                 /\ wk' = [wk EXCEPT ![w] = [@ EXCEPT !.error_count = @ + 1, !.pc = "abort"]]
                 /\ AuditEnd(w, "Aborted")

\* Lines 355-357.
ProcessSummary(w) ==
    /\ wk[w].kind = "process"
    /\ wk[w].pc = "loop"
    /\ wk[w].i > Len(wk[w].files)
    /\ Put(w, <<Separator, Simple("complete", "processing_complete"),
                Ev("summary", "summary", "", wk[w].processed_count, wk[w].error_count)>>)
    /\ wk' = [wk EXCEPT ![w].pc = "complete"]
    /\ UNCHANGED <<guiVars, processor, validators, dirVars, logVars,
                   processed_files_log, today, call, audit>>

(***************************************************************************)
(* validate_selected_files (lines 244-281)                                 *)
(***************************************************************************)
ValidateSkip(w) == Skip(w, "validate")

\* Lines 254-260: the file is announced and downloaded to a temporary copy.
ValidateDownload(w) ==
    /\ UNCHANGED <<guiVars, processor, validators, archive_dir, error_dir, moved,
                   logVars, processed_files_log, today, call>>
    /\ wk[w].kind = "validate"
    /\ wk[w].pc = "loop"
    /\ wk[w].i <= Len(wk[w].files)
    /\ CurrentFile(w) \notin validators[wk[w].v]
    /\ \E o \in {"ok", "open_fails", "retr_fails"} :
         /\ o = "ok" => SessionWorks(processor)
         /\ download_dir' = IF o = "open_fails" THEN download_dir
                            ELSE download_dir \cup {TempName(CurrentFile(w))}
         /\ wk' = [wk EXCEPT ![w] = IF o = "ok" THEN [@ EXCEPT !.pc = "vfilename"]
                                    ELSE Raise(@, "vfailed", "download")]
    /\ Put(w, <<Separator, Ev("info", "validating", CurrentFile(w), 0, 0)>>)
    /\ AuditBegin(w)

\* Line 262.
ValidateFilename(w) ==
    /\ wk[w].kind = "validate"
    /\ wk[w].pc = "vfilename"
    /\ LET is_valid == FilenameMatches(CurrentFile(w))
       IN  /\ Put(w, <<FilenameEvent(is_valid)>>)
           /\ wk' = [wk EXCEPT ![w].pc = IF is_valid THEN "vcontent" ELSE "vunlink"]
    /\ UNCHANGED <<guiVars, processor, validators, dirVars, logVars,
                   processed_files_log, today, call, audit>>

\* Lines 265-270: the thread with the verdict r on its file counted.
ContentJudged(me, r) ==
    [me EXCEPT !.result = r,
               !.valid_count = IF r.valid THEN @ + 1 ELSE @,
               !.invalid_count = IF r.valid THEN @ ELSE @ + 1,
               !.pc = "vunlink"]

\* Lines 266 and 269.
VerdictEvent(filename, r) ==
    IF r.valid THEN Ev("success", "valid", filename, r.count, 0)
    ELSE Ev("error", "invalid", filename, Len(r.errors), 0)

\* Lines 263-270: the verdict on the temporary copy, its event and count.
ValidateContent(w) ==
    /\ wk[w].kind = "validate"
    /\ wk[w].pc = "vcontent"
    /\ \E readable \in BOOLEAN :
         /\ readable => TempName(CurrentFile(w)) \in download_dir
         /\ wk' = [wk EXCEPT ![w] =
                     ContentJudged(@, ContentVerdict[CurrentFile(w)][readable])]
         /\ Put(w, NoteEvents(wk'[w].result.notes) \o <<VerdictEvent(CurrentFile(w), wk'[w].result)>>)
    /\ UNCHANGED <<guiVars, processor, validators, dirVars, logVars,
                   processed_files_log, today, call, audit>>

\* How a file of validate mode ended when its temporary copy was removed.
ValidateOutcome(w) ==
    IF ~FilenameMatches(CurrentFile(w)) THEN "FilenameInvalid"
    ELSE IF wk[w].result.valid THEN "Valid" ELSE "Invalid"

\* A validate mode that leaves the temporary copy behind: what C8 excludes.
ValidateKeepCopy(w) ==
    /\ UNCHANGED <<guiVars, processor, validators, dirVars, chanVars, logVars,
                   processed_files_log, today, call>>
    /\ wk[w].kind = "validate"
    /\ wk[w].pc = "vunlink"
    /\ wk' = [wk EXCEPT ![w] = NextFile(@)]
    /\ AuditEnd(w, ValidateOutcome(w))

\* Line 272: temp_path.unlink().
ValidateUnlink(w) ==
    /\ UNCHANGED <<guiVars, processor, validators, archive_dir, error_dir, moved,
                   chanVars, logVars, processed_files_log, today, call>>
    /\ wk[w].kind = "validate"
    /\ wk[w].pc = "vunlink"
    /\ \E ok \in BOOLEAN :
         /\ ok => TempName(CurrentFile(w)) \in download_dir
         /\ IF ok
            THEN /\ download_dir' = download_dir \ {TempName(CurrentFile(w))}
                 /\ wk' = [wk EXCEPT ![w] = NextFile(@)]
                 /\ AuditEnd(w, ValidateOutcome(w))
            ELSE /\ wk' = [wk EXCEPT ![w] = Raise(@, "vfailed", "unlink")]
                 /\ UNCHANGED <<download_dir, audit>>

\* Lines 273-277: the handler.  When its unlink raises, the exception leaves
\* validate_selected_files.
ValidateFailed(w) ==
    /\ UNCHANGED <<guiVars, processor, validators, archive_dir, error_dir, moved,
                   logVars, processed_files_log, today, call>>
    /\ wk[w].kind = "validate"
    /\ wk[w].pc = "vfailed"
    /\ Put(w, <<Ev("error", "error_validating", CurrentFile(w), 0, 0)>>)
    /\ \E unlink_ok \in BOOLEAN :
         /\ TempName(CurrentFile(w)) \notin download_dir => unlink_ok
         /\ IF unlink_ok
            THEN /\ download_dir' = download_dir \ {TempName(CurrentFile(w))}
                 /\ wk' = [wk EXCEPT ![w] = NextFile([@ EXCEPT !.invalid_count = @ + 1])]
                 /\ AuditEnd(w, FailureOutcome(wk[w].raised))
            ELSE /\ UNCHANGED download_dir
                 /\ wk' = [wk EXCEPT ![w] = [@ EXCEPT !.invalid_count = @ + 1, !.pc = "abort"]]
                 /\ AuditEnd(w, "Aborted")

\* Lines 279-281.
ValidateSummary(w) ==
    /\ wk[w].kind = "validate"
    /\ wk[w].pc = "loop"
    /\ wk[w].i > Len(wk[w].files)
    /\ Put(w, <<Separator, Simple("complete", "validation_complete"),
                Ev("summary", "results", "", wk[w].valid_count, wk[w].invalid_count)>>)
    /\ wk' = [wk EXCEPT ![w].pc = "complete"]
    /\ UNCHANGED <<guiVars, processor, validators, dirVars, logVars,
                   processed_files_log, today, call, audit>>

(***************************************************************************)
(* The last lines of every worker: the event ("complete", "complete"),     *)
(* after an error event when the operation raised.                         *)
(***************************************************************************)
CompleteEvent == Simple("complete", "complete")

WorkerComplete(w) ==
    /\ wk[w].pc = "complete"
    /\ Put(w, <<CompleteEvent>>)
    /\ wk' = [wk EXCEPT ![w].pc = "finished"]
    /\ UNCHANGED <<guiVars, processor, validators, dirVars, logVars,
                   processed_files_log, today, call, audit>>

\* A worker that ends on an exception without a word: what C3 excludes.
WorkerFailedSilently(w) ==
    /\ wk[w].pc = "abort"
    /\ wk' = [wk EXCEPT ![w].pc = "finished"]
    /\ UNCHANGED <<guiVars, processor, chanVars, validators, dirVars, logVars,
                   processed_files_log, today, call, audit>>

\* Lines 711-713 and 758-760: the handler of the worker.
WorkerFailed(w) ==
    /\ wk[w].pc = "abort"
    /\ Put(w, <<Simple("error", "operation_failed"), CompleteEvent>>)
    /\ wk' = [wk EXCEPT ![w].pc = "finished"]
    /\ UNCHANGED <<guiVars, processor, validators, dirVars, logVars,
                   processed_files_log, today, call, audit>>

PipelineStep(w) ==
    \/ PipelineStart(w)
    \/ PipelineCall(w)
    \/ ProcessSkip(w)
    \/ ProcessDownload(w)
    \/ ProcessFilename(w)
    \/ ProcessRejectMove(w)
    \/ ProcessRejectLog(w)
    \/ ProcessContent(w)
    \/ ProcessArchiveMove(w)
    \/ ProcessArchiveSave(w)
    \/ ProcessArchiveFailed(w)
    \/ ProcessInvalidMove(w)
    \/ ProcessInvalidLog(w)
    \/ ProcessFatal(w)
    \/ ProcessSummary(w)
    \/ ValidateSkip(w)
    \/ ValidateDownload(w)
    \/ ValidateFilename(w)
    \/ ValidateContent(w)
    \/ ValidateUnlink(w)
    \/ ValidateFailed(w)
    \/ ValidateSummary(w)
    \/ WorkerComplete(w)
    \/ WorkerFailed(w)

(***************************************************************************)
(* One validate or process run over a list of files: the state in which    *)
(* the thread has been started, and its steps.                             *)
(***************************************************************************)
\* The lists of 1..MaxBatch server files.
Batches == UNION {[1..n -> ServerFiles] : n \in 1..MaxBatch}

\* The registry on disk when the run starts: empty, or holding F_OK or a
\* file that is no longer on the server, which an earlier run archived.
InitBatch ==
    /\ is_processing = TRUE
    /\ processor \in {[made |-> TRUE, ftp |-> "live", connected |-> TRUE, remote_dir |-> ""],
                      [made |-> TRUE, ftp |-> "dead", connected |-> FALSE, remote_dir |-> ""]}
    /\ all_files = Sorted(CsvFiles(ServerFiles))
    /\ displayed_files = all_files
    /\ selection = 0
    /\ buttons = [connect |-> FALSE, disconnect |-> TRUE, validate |-> FALSE, process |-> FALSE]
    /\ after_queue = <<>>
    /\ validator = 1
    /\ today \in Dates
    /\ \E earlier \in {{}, {F_OK}, {"CLINICALDATA20241231235959.CSV"}} :
         /\ processed_files_log =
              IF earlier = {} THEN NoRegistryFile
              ELSE [exists |-> TRUE, text |-> RegistryText(earlier)]
         /\ archive_dir = {ArchiveFilename(f, today) : f \in earlier}
         /\ moved = earlier
    /\ validators = [v \in Workers |->
                       IF v = 1 THEN LoadProcessedFiles(processed_files_log) ELSE {}]
    /\ \E kind \in {"validate", "process"}, files \in Batches :
         wk = [w \in Workers |->
                 IF w = 1 THEN [IdleWorker EXCEPT !.kind = kind, !.pc = "start", !.files = files]
                 ELSE IdleWorker]
    /\ status_queue = <<>>
    /\ produced = [w \in Workers |-> <<>>]
    /\ recv = [w \in Workers |-> <<>>]
    /\ download_dir = {}
    /\ error_dir = {}
    /\ error_log = <<>>
    /\ next_guid = 0
    /\ audit = [w \in Workers |-> NoAudit]
    /\ call = NoCall

NextBatch == \E w \in Workers : PipelineStep(w)

SpecBatch == InitBatch /\ [][NextBatch]_vars

(***************************************************************************)
(* The worker threads of connect_to_server, disconnect_from_server and     *)
(* refresh_file_list.                                                      *)
(***************************************************************************)
\* root.after(0, callback) from a thread: the callbacks run on the GUI
\* thread in the order scheduled.
After(callbacks) == after_queue' = after_queue \o callbacks

\* self.processor when _connect_and_load_files has built it (lines 564-570).
MadeProcessor(p) == IF p.made THEN p ELSE [NoProcessor EXCEPT !.made = TRUE]

\* Lines 564-572: the processor is built when there is none, and connects.
ConnectWorkerStart(w) ==
    /\ wk[w].kind = "connect"
    /\ wk[w].pc = "start"
    /\ \E outcome \in ConnectOutcomes :
         /\ processor' = Connect(MadeProcessor(processor), outcome, TRUE).processor
         /\ Put(w, Connect(MadeProcessor(processor), outcome, TRUE).events)
         /\ wk' = [wk EXCEPT ![w].pc = IF outcome = "ok" THEN "list" ELSE "failed"]
    /\ UNCHANGED <<guiVars, validators, dirVars, logVars, processed_files_log,
                   today, call, audit>>

\* Lines 573-578.
ConnectWorkerList(w) ==
    /\ wk[w].kind = "connect"
    /\ wk[w].pc = "list"
    /\ \E nlst_ok \in BOOLEAN :
         /\ nlst_ok => SessionWorks(processor)
         /\ all_files' = GetFileList(processor, ServerFiles, nlst_ok).files
         /\ Put(w, GetFileList(processor, ServerFiles, nlst_ok).events
                   \o <<Simple("success", "file_list_loaded"), Simple("info", "ready")>>)
    /\ After(<<"update_file_listbox", "update_status_label">>)
    /\ wk' = [wk EXCEPT ![w].pc = "complete"]
    /\ UNCHANGED <<is_processing, displayed_files, selection, buttons, validator,
                   processor, validators, dirVars, logVars, processed_files_log,
                   today, call, audit>>

\* Line 580.
ConnectWorkerFailed(w) ==
    /\ wk[w].kind = "connect"
    /\ wk[w].pc = "failed"
    /\ Put(w, <<Simple("error", "failed_to_connect")>>)
    /\ wk' = [wk EXCEPT ![w].pc = "complete"]
    /\ UNCHANGED <<guiVars, processor, validators, dirVars, logVars,
                   processed_files_log, today, call, audit>>

\* _disconnect_worker, lines 607-612.
DisconnectWorker(w) ==
    /\ wk[w].kind = "disconnect"
    /\ wk[w].pc = "start"
    /\ IF processor.made
       THEN /\ \E quit_ok \in BOOLEAN :
                 /\ quit_ok => SessionWorks(processor)
                 /\ processor' = Disconnect(processor, quit_ok)
            /\ all_files' = <<>>
            /\ After(<<"update_file_listbox", "update_status_label">>)
            /\ Put(w, <<Simple("success", "disconnected")>>)
       ELSE UNCHANGED <<processor, all_files, after_queue, chanVars>>
    /\ wk' = [wk EXCEPT ![w].pc = "complete"]
    /\ UNCHANGED <<is_processing, displayed_files, selection, buttons, validator,
                   validators, dirVars, logVars, processed_files_log, today, call, audit>>

\* _refresh_files, lines 664-665.
RefreshWorkerStart(w) ==
    /\ wk[w].kind = "refresh"
    /\ wk[w].pc = "start"
    /\ ConnectIfNeeded(w)
    /\ wk' = [wk EXCEPT ![w].pc = "list"]
    /\ UNCHANGED <<guiVars, validators, dirVars, logVars, processed_files_log,
                   today, call, audit>>

\* Lines 667-670.
RefreshWorkerList(w) ==
    /\ wk[w].kind = "refresh"
    /\ wk[w].pc = "list"
    /\ \E nlst_ok \in BOOLEAN :
         /\ nlst_ok => SessionWorks(processor)
         /\ all_files' = GetFileList(processor, ServerFiles, nlst_ok).files
         /\ Put(w, GetFileList(processor, ServerFiles, nlst_ok).events
                   \o <<Simple("success", "file_list_refreshed")>>)
    /\ After(<<"update_file_listbox">>)
    /\ wk' = [wk EXCEPT ![w].pc = "complete"]
    /\ UNCHANGED <<is_processing, displayed_files, selection, buttons, validator,
                   processor, validators, dirVars, logVars, processed_files_log,
                   today, call, audit>>

\* A step of the thread w.
WorkerStep(w) ==
    \/ ConnectWorkerStart(w)
    \/ ConnectWorkerList(w)
    \/ ConnectWorkerFailed(w)
    \/ DisconnectWorker(w)
    \/ RefreshWorkerStart(w)
    \/ RefreshWorkerList(w)
    \/ PipelineStep(w)

(***************************************************************************)
(* The GUI thread: the button commands, the listbox, the callbacks of      *)
(* root.after and check_queue.                                             *)
(***************************************************************************)
\* The thread that threading.Thread(...).start() starts next.
CanStart == \E w \in Workers : wk[w].kind = "none"

NextThread ==
    CHOOSE w \in Workers : wk[w].kind = "none" /\ \A u \in 1..(w - 1) : wk[u].kind # "none"

StartThread(kind, files) ==
    wk' = [wk EXCEPT ![NextThread] =
             [IdleWorker EXCEPT !.kind = kind, !.pc = "start", !.files = files]]

\* Lines 546-560.  The three connection fields hold their defaults.
connect_to_server ==
    /\ buttons.connect
    /\ ~is_processing
    /\ CanStart
    /\ is_processing' = TRUE
    /\ StartThread("connect", <<>>)
    /\ UNCHANGED <<processor, all_files, displayed_files, selection, buttons,
                   after_queue, validator, validators, chanVars, dirVars, logVars,
                   processed_files_log, today, call, audit>>

\* Lines 587-602.
disconnect_from_server ==
    /\ buttons.disconnect
    /\ ~is_processing
    /\ processor.made
    /\ CanStart
    /\ is_processing' = TRUE
    /\ StartThread("disconnect", <<>>)
    /\ UNCHANGED <<processor, all_files, displayed_files, selection, buttons,
                   after_queue, validator, validators, chanVars, dirVars, logVars,
                   processed_files_log, today, call, audit>>

\* Lines 642-660.  The Refresh button is never disabled.
refresh_file_list ==
    /\ processor.made
    /\ ~is_processing
    /\ CanStart
    /\ is_processing' = TRUE
    /\ StartThread("refresh", <<>>)
    /\ UNCHANGED <<processor, all_files, displayed_files, selection, buttons,
                   after_queue, validator, validators, chanVars, dirVars, logVars,
                   processed_files_log, today, call, audit>>

\* Lines 676-702 and 715-749 (the confirmation answered yes): the buttons
\* are disabled, a validator is built from the registry file and the thread
\* is started on the selected file.
SubmitSelected(kind) ==
    /\ ~is_processing
    /\ selection # 0
    /\ CanStart
    /\ is_processing' = TRUE
    /\ buttons' = [buttons EXCEPT !.validate = FALSE, !.process = FALSE]
    /\ validator' = NextThread
    /\ validators' = [validators EXCEPT ![NextThread] =
                        LoadProcessedFiles(processed_files_log)]
    /\ StartThread(kind, <<displayed_files[selection]>>)
    /\ UNCHANGED <<processor, all_files, displayed_files, selection, after_queue,
                   chanVars, dirVars, logVars, processed_files_log, today, call, audit>>

validate_selected ==
    /\ buttons.validate
    /\ SubmitSelected("validate")

process_selected ==
    /\ buttons.process
    /\ SubmitSelected("process")

\* Lines 536-544: the user selects a row of the listbox.
on_file_selection_change ==
    /\ \E row \in 1..Len(displayed_files) :
         /\ row # selection
         /\ selection' = row
    /\ buttons' = [buttons EXCEPT !.validate = processor.made /\ processor.connected,
                                  !.process = processor.made /\ processor.connected]
    /\ UNCHANGED <<is_processing, processor, all_files, displayed_files, after_queue,
                   validator, validators, wk, chanVars, dirVars, logVars,
                   processed_files_log, today, call, audit>>

\* Lines 619-625 with an empty search box: the listbox is filled again, which
\* clears its selection.
update_file_listbox ==
    /\ after_queue # <<>>
    /\ Head(after_queue) = "update_file_listbox"
    /\ after_queue' = Tail(after_queue)
    /\ displayed_files' = all_files
    /\ selection' = 0
    /\ UNCHANGED <<is_processing, processor, all_files, buttons, validator,
                   validators, wk, chanVars, dirVars, logVars, processed_files_log,
                   today, call, audit>>

\* Lines 523-534.
update_status_label ==
    /\ after_queue # <<>>
    /\ Head(after_queue) = "update_status_label"
    /\ after_queue' = Tail(after_queue)
    /\ buttons' = IF processor.made /\ processor.connected
                  THEN [buttons EXCEPT !.connect = FALSE, !.disconnect = TRUE]
                  ELSE [connect |-> TRUE, disconnect |-> FALSE,
                        validate |-> FALSE, process |-> FALSE]
    /\ UNCHANGED <<is_processing, processor, all_files, displayed_files, selection,
                   validator, validators, wk, chanVars, dirVars, logVars,
                   processed_files_log, today, call, audit>>

\* The loop of check_queue (lines 506-517) on the queue q: got is what
\* get_nowait has returned so far, cleared whether an item with the tag
\* "complete" or "error" was among them.
RECURSIVE Drain(_, _, _)
Drain(q, got, cleared) ==
    IF q = <<>> THEN [got |-> got, cleared |-> cleared, rest |-> q]
    ELSE Drain(Tail(q), Append(got, QueueGet(q)),
               cleared \/ QueueGet(q).tag \in {"complete", "error"})

\* check_queue (lines 504-521), when the queue holds an item.  A put of a
\* thread during the loop is taken by this run of the loop as it would be by
\* the next, so the loop is one step.
check_queue ==
    /\ status_queue # <<>>
    /\ status_queue' = Drain(status_queue, <<>>, FALSE).rest
    /\ recv' = [w \in Workers |-> recv[w] \o OfRun(Drain(status_queue, <<>>, FALSE).got, w)]
    /\ is_processing' = (is_processing /\ ~Drain(status_queue, <<>>, FALSE).cleared)
    /\ buttons' = IF Drain(status_queue, <<>>, FALSE).cleared
                  THEN [buttons EXCEPT !.validate = TRUE, !.process = TRUE]
                  ELSE buttons
    /\ UNCHANGED <<processor, all_files, displayed_files, selection, after_queue,
                   validator, validators, wk, produced, dirVars, logVars,
                   processed_files_log, today, call, audit>>

(***************************************************************************)
(* The application: the state after ClinicalDataGUI.__init__, and its      *)
(* steps.                                                                  *)
(***************************************************************************)
Init ==
    /\ is_processing = FALSE
    /\ processor = NoProcessor
    /\ all_files = <<>>
    /\ displayed_files = <<>>
    /\ selection = 0
    /\ buttons = [connect |-> TRUE, disconnect |-> FALSE, validate |-> FALSE,
                  process |-> FALSE]
    /\ after_queue = <<>>
    /\ validator = 0
    /\ today \in Dates
    /\ \E earlier \in {{}, {F_OK}} :
         /\ processed_files_log =
              IF earlier = {} THEN NoRegistryFile
              ELSE [exists |-> TRUE, text |-> RegistryText(earlier)]
         /\ archive_dir = {ArchiveFilename(f, today) : f \in earlier}
         /\ moved = earlier
    /\ validators = [v \in Workers |-> {}]
    /\ wk = [w \in Workers |-> IdleWorker]
    /\ status_queue = <<>>
    /\ produced = [w \in Workers |-> <<>>]
    /\ recv = [w \in Workers |-> <<>>]
    /\ download_dir = {}
    /\ error_dir = {}
    /\ error_log = <<>>
    /\ next_guid = 0
    /\ audit = [w \in Workers |-> NoAudit]
    /\ call = NoCall

Next ==
    \/ connect_to_server
    \/ disconnect_from_server
    \/ refresh_file_list
    \/ validate_selected
    \/ process_selected
    \/ on_file_selection_change
    \/ update_file_listbox
    \/ update_status_label
    \/ check_queue
    \/ \E w \in Workers : WorkerStep(w)

Spec == Init /\ [][Next]_vars

\* The scheduler runs every thread that can take a step, and Tk runs
\* check_queue every 100 ms (lines 492 and 521).
FairSpec ==
    /\ Spec
    /\ WF_vars(check_queue)
    /\ \A w \in Workers : WF_vars(WorkerStep(w))

(***************************************************************************)
(* Single calls of ClinicalDataValidator's methods, on arguments drawn     *)
(* from bounded sets: the name of the archived file (lines 303, 317-320)   *)
(* and _validate_csv_content (lines 132-242).                              *)
(***************************************************************************)
\* The data rows of a file in these calls are at most this many.
MaxRows == 2

CsvRow(pid, dosage, dates, outcome, side) ==
    <<pid, "T1", "D1", dosage, dates[1], dates[2], outcome, side, "A">>

\* Rows with every combination of defects, rows whose dosage int() reads in
\* its less usual forms or refuses, and rows that do not have 9 fields.
CallRows ==
    {CsvRow(pid, dosage, dates, outcome, side) :
        pid \in {"P1", "P2"}, dosage \in {"10", "0", "-5", "abc"},
        dates \in {<<"2024-01-01", "2024-01-02">>, <<"2024-01-02", "2024-01-01">>,
                   <<"2024-02-30", "2024-03-01">>},
        outcome \in {"Improved", "Cured"}, side \in {"None", ""}}
    \cup {CsvRow("P1", dosage, <<"2024-01-01", "2024-01-02">>, "Worsened", "None") :
            dosage \in {"1.5", " 7 ", "1_0", "+3", "", "1__0", "-0"}}
    \cup {CsvRow("P1", "10", dates, "Improved", "None") :
            dates \in {<<"2024-01-01", "2024-01-01">>, <<"2023-12-31", "2024-01-01">>,
                       <<"2024-02-29", "2024-03-01">>, <<"2024-1-5", "2024-01-06">>,
                       <<"2024-12-31", "2024-01-01">>, <<"2024-03-10", "2024-03-09">>,
                       <<"2024-01-01", "01/02/2024">>, <<"2024-01-02", "2023-02-29">>,
                       <<"24-01-01", "2024-01-02">>, <<"2024-01-01", "2024-13-01">>,
                       <<"2024-01-01T00:00", "2024-01-02">>}}
    \cup {<<"P1", "T1", "D1">>, Append(GoodRow("P1"), "extra")}

\* First rows: the header, and rows that differ from it in a name, in the
\* order, in the count, or altogether.
CallHeaders ==
    {expected_fields,
     [expected_fields EXCEPT ![1] = "patientid"],
     [expected_fields EXCEPT ![5] = "EndDate", ![6] = "StartDate"],
     SubSeq(expected_fields, 1, 8),
     Append(expected_fields, "Notes"),
     GoodRow("P1")}

\* A call of _validate_csv_content on a file with the rows, which is UTF-8
\* text or not, and which open() and the read deliver or not.
ContentCall(u, r, rows) ==
    [fn |-> "validate_csv_content",
     arg |-> [content |-> [utf8 |-> u, rows |-> rows], readable |-> r],
     done |-> FALSE, ret |-> <<>>]

\* Every file of up to MaxRows data rows is read as UTF-8 text; the files of
\* at most one data row are also read when they are not UTF-8 and when the
\* read fails.
InitCalls ==
    /\ is_processing = FALSE
    /\ processor = NoProcessor
    /\ all_files = <<>>
    /\ displayed_files = <<>>
    /\ selection = 0
    /\ buttons = [connect |-> TRUE, disconnect |-> FALSE, validate |-> FALSE,
                  process |-> FALSE]
    /\ after_queue = <<>>
    /\ validator = 0
    /\ today \in Dates
    /\ processed_files_log = NoRegistryFile
    /\ archive_dir = {}
    /\ moved = {}
    /\ validators = [v \in Workers |-> {}]
    /\ wk = [w \in Workers |-> IdleWorker]
    /\ status_queue = <<>>
    /\ produced = [w \in Workers |-> <<>>]
    /\ recv = [w \in Workers |-> <<>>]
    /\ download_dir = {}
    /\ error_dir = {}
    /\ error_log = <<>>
    /\ next_guid = 0
    /\ audit = [w \in Workers |-> NoAudit]
    /\ \/ \E filename \in
               {p \o t \o e :
                   p \in {"CLINICALDATA", "clinicaldata", "ClinicalData", "CLINICALDATAX"},
                   t \in {"20250101120000", "2025010112000", "2025010112000a"},
                   e \in {".CSV", ".csv", ".Csv", ".txt"}}
               \cup {b \o F_OK \o a : b \in {"", "X", " ", "\n"},
                                       a \in {"", "X", " ", "\n", "\n\n", ".CSV"}}
               \cup {"CLINICALDATA202501011200001.CSV", "CLINICALDATA.CSV",
                     "CLINICALDATA20250101120000", "CLINICALDATA20250101120000_CSV",
                     "CLINICAL_DATA20250101120000.CSV", ""},
             date \in {"20250105", "20241231"} :
            call = [fn |-> "archive_name", arg |-> [filename |-> filename, date |-> date],
                    done |-> FALSE, ret |-> <<>>]
       \/ \E u, r \in BOOLEAN, rows \in {<<>>} \cup {<<h>> : h \in CallHeaders} :
            call = ContentCall(u, r, rows)
       \/ \E u, r \in BOOLEAN, h \in CallHeaders, n \in 1..MaxRows :
            \E rows \in [1..n -> CallRows] :
               /\ (~u \/ ~r) => n = 1
               /\ call = ContentCall(u, r, <<h>> \o rows)
       \/ \E rows \in [1..(MaxRows + 1) ->
                        {GoodRow("P1"), GoodRow("P2"),
                         CsvRow("P1", "0", <<"2024-01-01", "2024-01-02">>, "Improved", "None"),
                         [GoodRow("P1") EXCEPT ![1] = "P1_X"],
                         [GoodRow("P1") EXCEPT ![2] = "X_T1"]}] :
            call = ContentCall(TRUE, TRUE, <<expected_fields>> \o rows)
       \/ \E log \in {"", LogLine("2025-01-04 09:00:00", "g0", "BAD.csv", "Invalid filename pattern")},
             filename \in {F_OK, F_BAD},
             message \in {"Invalid filename pattern", "Row 2: Invalid outcome 'Cured'",
                          "Row 2: Non-numeric dosage: 'abc' | Row 3: Duplicate record",
                          "Row 2: Non-numeric dosage: '1\n0'"},
             guid \in {"g1", "g2"} :
            call = [fn |-> "log_error",
                    arg |-> [log |-> log, filename |-> filename, message |-> message,
                             timestamp |-> "2025-01-05 12:00:00", guid |-> guid],
                    done |-> FALSE, ret |-> <<>>]
       \/ \E p \in {[made |-> TRUE, ftp |-> f, connected |-> c, remote_dir |-> d] :
                     f \in {"none", "live", "dead"}, c \in BOOLEAN, d \in {"", "incoming"}} :
            /\ p.connected => p.ftp # "none"
            /\ p.ftp = "live" => p.connected
            /\ \/ \E outcome \in ConnectOutcomes, cwd_ok \in BOOLEAN :
                    call = [fn |-> "connect",
                            arg |-> [processor |-> p, outcome |-> outcome, cwd_ok |-> cwd_ok],
                            done |-> FALSE, ret |-> <<>>]
               \/ \E quit_ok \in BOOLEAN :
                    /\ quit_ok => SessionWorks(p)
                    /\ call = [fn |-> "disconnect",
                               arg |-> [processor |-> p, quit_ok |-> quit_ok],
                               done |-> FALSE, ret |-> <<>>]
               \/ \E nlst_ok \in BOOLEAN,
                     names \in SUBSET {"b.csv", "B.CSV", "a.Csv", "a.csv.bak", "csv", ".CSV",
                                       "notes.txt", "A.cSV"} :
                    /\ nlst_ok => SessionWorks(p)
                    /\ call = [fn |-> "get_file_list",
                               arg |-> [processor |-> p, names |-> names, nlst_ok |-> nlst_ok],
                               done |-> FALSE, ret |-> <<>>]
       \/ \E processed_files \in SUBSET {F_OK, F_DATE, F_MANY, ""}, filename \in {F_OK, F_MANY} :
            /\ Cardinality(processed_files) <= MaxRows
            /\ call = [fn |-> "save_processed_file",
                       arg |-> [processed_files |-> processed_files, filename |-> filename],
                       done |-> FALSE, ret |-> <<>>]

progVars == <<is_processing, processor, all_files, displayed_files, selection,
              buttons, after_queue, validator, validators, wk, status_queue,
              produced, recv, download_dir, archive_dir, error_dir,
              processed_files_log, error_log, next_guid, today, moved, audit>>

\* Lines 303 and 317-320: whether the name is accepted, and the name the
\* file is archived under on the date.
ArchiveName ==
    /\ call.fn = "archive_name"
    /\ ~call.done
    /\ call' = [call EXCEPT !.done = TRUE,
                            !.ret = [accepted |-> FilenameMatches(call.arg.filename),
                                     name |-> ArchiveFilename(call.arg.filename,
                                                              call.arg.date)]]
    /\ UNCHANGED progVars

\* _validate_csv_content(file_path, status_queue) on a file with the content.
CsvContent ==
    /\ call.fn = "validate_csv_content"
    /\ ~call.done
    /\ call' = [call EXCEPT !.done = TRUE,
                            !.ret = ValidateCsvContent(call.arg.content, call.arg.readable)]
    /\ UNCHANGED progVars

\* A call of _log_error(filename, error_details) when error_report.log
\* holds arg.log; timestamp is what datetime.now() gives and guid what
\* uuid4() gives, a text no earlier call got.  It returns (guid, log_entry).
LogErrorCall ==
    /\ call.fn = "log_error"
    /\ ~call.done
    /\ call' = [call EXCEPT
                  !.done = TRUE,
                  !.ret = [log |-> call.arg.log
                                     \o LogLine(call.arg.timestamp, call.arg.guid,
                                                call.arg.filename, call.arg.message),
                           guid |-> call.arg.guid,
                           log_entry |-> LogLine(call.arg.timestamp, call.arg.guid,
                                                 call.arg.filename, call.arg.message)]]
    /\ UNCHANGED progVars

\* A call of _save_processed_file(filename) whose write succeeds, by a
\* validator whose processed_files is arg.processed_files, and then the
\* _load_processed_files of a new validator.
SaveLoadCall ==
    /\ call.fn = "save_processed_file"
    /\ ~call.done
    /\ call' = [call EXCEPT
                  !.done = TRUE,
                  !.ret = [processed_files |->
                               RegistryAdd(call.arg.processed_files, call.arg.filename),
                           text |-> RegistryText(RegistryAdd(call.arg.processed_files,
                                                             call.arg.filename)),
                           reloaded |-> LoadProcessedFiles(
                               [exists |-> TRUE,
                                text |-> RegistryText(RegistryAdd(call.arg.processed_files,
                                                                  call.arg.filename))])]]
    /\ UNCHANGED progVars

\* A call of connect(status_queue) on a processor.
ConnectCall ==
    /\ call.fn = "connect"
    /\ ~call.done
    /\ call' = [call EXCEPT
                  !.done = TRUE,
                  !.ret = Connect(call.arg.processor, call.arg.outcome, call.arg.cwd_ok)]
    /\ UNCHANGED progVars

\* A call of disconnect() on a processor.
DisconnectCall ==
    /\ call.fn = "disconnect"
    /\ ~call.done
    /\ call' = [call EXCEPT
                  !.done = TRUE,
                  !.ret = [processor |-> Disconnect(call.arg.processor, call.arg.quit_ok),
                           raised |-> DisconnectRaised(call.arg.processor, call.arg.quit_ok)]]
    /\ UNCHANGED progVars

\* A call of get_file_list(status_queue) when the server has the names.
FileListCall ==
    /\ call.fn = "get_file_list"
    /\ ~call.done
    /\ call' = [call EXCEPT
                  !.done = TRUE,
                  !.ret = GetFileList(call.arg.processor, call.arg.names, call.arg.nlst_ok)]
    /\ UNCHANGED progVars

NextCalls ==
    \/ ArchiveName
    \/ CsvContent
    \/ LogErrorCall
    \/ SaveLoadCall
    \/ ConnectCall
    \/ DisconnectCall
    \/ FileListCall

SpecCalls == InitCalls /\ [][NextCalls]_vars

(***************************************************************************)
(* src/Threadtestfile.py: ThreadTest.run_thread_tests.  The call record    *)
(* holds the main thread's position (main.pc, and the thread main.t it is  *)
(* about to start or join), the position of each of the three threads and  *)
(* the shared list self.results.  Thread 1 runs _connect_and_load_files,   *)
(* thread 2 _refresh_files and thread 3 _validate_selected_worker.         *)
(***************************************************************************)

\* Lines 6-7 and 52-53: a new ThreadTest has an empty results list and no
\* thread; run_thread_tests is about to start the first one.
InitThreads ==
    /\ is_processing = FALSE
    /\ processor = NoProcessor
    /\ all_files = <<>>
    /\ displayed_files = <<>>
    /\ selection = 0
    /\ buttons = [connect |-> TRUE, disconnect |-> FALSE, validate |-> FALSE,
                  process |-> FALSE]
    /\ after_queue = <<>>
    /\ validator = 0
    /\ today \in Dates
    /\ processed_files_log = NoRegistryFile
    /\ archive_dir = {}
    /\ moved = {}
    /\ validators = [v \in Workers |-> {}]
    /\ wk = [w \in Workers |-> IdleWorker]
    /\ status_queue = <<>>
    /\ produced = [w \in Workers |-> <<>>]
    /\ recv = [w \in Workers |-> <<>>]
    /\ download_dir = {}
    /\ error_dir = {}
    /\ error_log = <<>>
    /\ next_guid = 0
    /\ audit = [w \in Workers |-> NoAudit]
    /\ call = [fn |-> "run_thread_tests",
               main |-> [pc |-> "start", t |-> 1],
               threads |-> [t \in 1..3 |-> "unstarted"],
               results |-> <<>>,
               done |-> FALSE, ret |-> <<>>]

\* Lines 26-39: the main thread creates and starts t1, then t2, then t3; a
\* started thread is inside its time.sleep(0.5).  After the third start the
\* main thread goes on to the joins.
TestStart(t) ==
    /\ call.fn = "run_thread_tests"
    /\ call.main = [pc |-> "start", t |-> t]
    /\ call' = [call EXCEPT !.threads[t] = "sleeping",
                            !.main = IF t < 3 THEN [pc |-> "start", t |-> t + 1]
                                     ELSE [pc |-> "join", t |-> 1]]
    /\ UNCHANGED progVars

\* Lines 11, 15 and 19: the thread's time.sleep(0.5) returns.
TestWake(t) ==
    /\ call.fn = "run_thread_tests"
    /\ call.threads[t] = "sleeping"
    /\ call' = [call EXCEPT !.threads[t] = "awake"]
    /\ UNCHANGED progVars

\* Lines 12, 16 and 20: self.results.append(...), one indivisible step of
\* the interpreter; thread 3 formats its argument ["test_file.csv"].
TestAppend(t) ==
    /\ call.fn = "run_thread_tests"
    /\ call.threads[t] = "awake"
    /\ call' = [call EXCEPT
                  !.threads[t] = "appended",
                  !.results = Append(@, <<"connect_and_load_files executed",
                                          "refresh_files executed",
                                          "validate_selected_worker executed for ['test_file.csv']">>[t])]
    /\ UNCHANGED progVars

\* Lines 12, 16 and 20: the target function returns and the thread ends.
TestExit(t) ==
    /\ call.fn = "run_thread_tests"
    /\ call.threads[t] = "appended"
    /\ call' = [call EXCEPT !.threads[t] = "finished"]
    /\ UNCHANGED progVars

\* A join that returns whether or not the thread has ended.
TestJoinNoWait(t) ==
    /\ call.fn = "run_thread_tests"
    /\ call.main = [pc |-> "join", t |-> t]
    /\ call' = [call EXCEPT !.main = IF t < 3 THEN [pc |-> "join", t |-> t + 1]
                                     ELSE [pc |-> "return", t |-> 0]]
    /\ UNCHANGED progVars

\* Lines 42-44: t1.join(), t2.join(), t3.join() in this order; a join
\* returns only once its thread has ended.
TestJoin(t) ==
    /\ call.fn = "run_thread_tests"
    /\ call.main = [pc |-> "join", t |-> t]
    /\ call.threads[t] = "finished"
    /\ call' = [call EXCEPT !.main = IF t < 3 THEN [pc |-> "join", t |-> t + 1]
                                     ELSE [pc |-> "return", t |-> 0]]
    /\ UNCHANGED progVars

\* Line 46 and lines 53-60: run_thread_tests returns self.results, and
\* run_test reports a pass when the returned list has three entries.
TestReturn ==
    /\ call.fn = "run_thread_tests"
    /\ call.main.pc = "return"
    /\ ~call.done
    /\ call' = [call EXCEPT !.done = TRUE,
                            !.ret = [output |-> call.results,
                                     passed |-> Len(call.results) = 3]]
    /\ UNCHANGED progVars

NextThreads ==
    \/ \E t \in 1..3 : TestStart(t)
    \/ \E t \in 1..3 : TestWake(t)
    \/ \E t \in 1..3 : TestAppend(t)
    \/ \E t \in 1..3 : TestExit(t)
    \/ \E t \in 1..3 : TestJoin(t)
    \/ TestReturn

SpecThreads == InitThreads /\ [][NextThreads]_vars

(***************************************************************************)
(* Properties.                                                             *)
(***************************************************************************)
TagCount(evs, tag) == Cardinality({i \in 1..Len(evs) : evs[i].tag = tag})

Done(w) == audit[w].done

Aborted(w) == Done(w) # <<>> /\ Done(w)[Len(Done(w))].outcome = "Aborted"

\* The events a thread put while it handled the file of an audit entry.
EventsOf(w, e) == SubSeq(produced[w], e.from, e.to)

\* C1: at most one background worker is running at any time, whatever the
\* interleaving of submissions, worker steps and polls: no submission starts
\* a second worker while one has not finished.
AtMostOneWorker == Cardinality({w \in Workers : Running(w)}) <= 1

\* C2: a validate or process worker that has finished has put exactly one
\* event with the tag "complete", and that event is the last it put.
OneCompleteLast ==
    \A w \in Workers :
        (wk[w].kind \in {"validate", "process"} /\ wk[w].pc = "finished") =>
            /\ TagCount(produced[w], "complete") = 1
            /\ produced[w][Len(produced[w])].tag = "complete"

\* The thread w has ended, check_queue has taken its last event, which is
\* ("complete", "complete"), and is_processing is False.
Cleared(w) ==
    /\ wk[w].pc = "finished"
    /\ OfRun(status_queue, w) = <<>>
    /\ recv[w] # <<>>
    /\ recv[w][Len(recv[w])] = [run |-> w] @@ CompleteEvent
    /\ ~is_processing

InOrder ==
    \A w \in Workers : recv[w] \o OfRun(status_queue, w) = produced[w]

\* C4 happens: events of a run were received, in several polls, and others
\* of the run wait in the queue.
InOrderWitness ==
    \E w \in Workers :
        /\ Len(recv[w]) >= 3
        /\ Len(OfRun(status_queue, w)) >= 2
        /\ recv[w][1] # recv[w][2]

\* The ways the handling of a file ends after which the loop goes on.
HandledOutcomes ==
    {"Skipped", "DownloadFailed", "FilenameRejected", "ContentRejected",
     "Archived", "ArchiveFailed", "MoveFailed", "LogFailed", "CleanupFailed"}

\* C5 (amended): in process mode the files are handled one after the other in
\* list order, each ending in exactly one outcome, a failure the handlers
\* catch never stopping the batch: the summary is reached only after every
\* file has its outcome.  The batch ends early only when the unlink of the
\* handler at lines 352-353 raises too, which is the last thing the run does
\* with a file.
ProcessInListOrder ==
    \A w \in Workers :
        (wk[w].kind = "process" /\ wk[w].pc \notin {"start", "call"}) =>
            /\ \A k \in 1..Len(Done(w)) :
                 /\ k <= Len(wk[w].files)
                 /\ Done(w)[k].file = wk[w].files[k]
                 /\ \/ Done(w)[k].outcome \in HandledOutcomes
                    \/ /\ Done(w)[k].outcome = "Aborted"
                       /\ k = Len(Done(w))
                       /\ wk[w].pc \in {"abort", "finished"}
            /\ Len(Done(w)) = IF Aborted(w) THEN wk[w].i ELSE wk[w].i - 1
            /\ wk[w].pc = "abort" => Aborted(w)
            /\ (wk[w].pc = "complete" \/ (wk[w].pc = "finished" /\ ~Aborted(w))) =>
                   Len(Done(w)) = Len(wk[w].files)

\* C5 as stated: a process run that has ended has handled every file of its
\* list, whatever failed on the way.
ProcessNeverAborts ==
    \A w \in Workers :
        (wk[w].kind = "process" /\ wk[w].pc = "finished") =>
            /\ Len(Done(w)) = Len(wk[w].files)
            /\ \A k \in 1..Len(Done(w)) : Done(w)[k].outcome \in HandledOutcomes

\* C5 happens: the download of the first file failed and the second file
\* was archived.
ProcessContinuesAfterFailure ==
    \E w \in Workers :
        /\ wk[w].kind = "process"
        /\ wk[w].pc = "finished"
        /\ Len(Done(w)) = 2
        /\ Done(w)[1].outcome = "DownloadFailed"
        /\ Done(w)[2].outcome = "Archived"

\* C6: every name in a registry, in memory or in the file, is the name of a
\* file whose move into the archive has succeeded, and the handling of a
\* file that ends otherwise than archived leaves its name out of the
\* registry.
RegistryOnlyArchived ==
    /\ \A v \in Workers : validators[v] \subseteq moved
    /\ LoadProcessedFiles(processed_files_log) \subseteq moved
    /\ \A w \in Workers :
         wk[w].kind = "process" =>
            \A k \in 1..Len(Done(w)) :
                Done(w)[k].outcome \notin {"Archived", "Skipped"} => ~Done(w)[k].in_registry

\* The part of C6 that holds: a registry only holds names whose move into
\* the archive has succeeded.
RegistryWithinMoved ==
    /\ \A v \in Workers : validators[v] \subseteq moved
    /\ LoadProcessedFiles(processed_files_log) \subseteq moved

\* The counters of a thread.
Counters(me) ==
    <<me.processed_count, me.error_count, me.valid_count, me.invalid_count>>

\* C7: a step of a validate or process thread on a file whose name is in
\* the registry of its validator is a skip: the three directories, the
\* registry in memory and on disk, the error log and the four counters stay
\* as they are, the only event is the skip warning and the thread is at the
\* next file with the outcome Skipped.
SkipIsIdempotent ==
    [][\A w \in Workers :
          (/\ wk[w].kind \in {"validate", "process"}
           /\ wk[w].pc = "loop"
           /\ wk[w].i <= Len(wk[w].files)
           /\ CurrentFile(w) \in validators[wk[w].v]
           /\ wk'[w] # wk[w])
          => /\ download_dir' = download_dir
             /\ archive_dir' = archive_dir
             /\ error_dir' = error_dir
             /\ validators' = validators
             /\ processed_files_log' = processed_files_log
             /\ error_log' = error_log
             /\ Counters(wk'[w]) = Counters(wk[w])
             /\ wk'[w].i = wk[w].i + 1
             /\ wk'[w].pc = "loop"
             /\ produced'[w] =
                  Append(produced[w],
                         [run |-> w] @@ Ev("warning", "skipping", CurrentFile(w), 0, 0))
             /\ Len(Done(w)') = Len(Done(w)) + 1
             /\ Done(w)'[Len(Done(w)')].outcome = "Skipped"
             /\ Done(w)'[Len(Done(w)')].file = CurrentFile(w)]_vars

\* C7 happens: a file was archived and, submitted again in the same list,
\* skipped.
ResubmittedIsSkipped ==
    \E w \in Workers :
        /\ Len(Done(w)) = 2
        /\ Done(w)[1].outcome = "Archived"
        /\ Done(w)[2].outcome = "Skipped"
        /\ Done(w)[2].file = Done(w)[1].file
        /\ wk[w].processed_count = 1
        /\ wk[w].error_count = 0

\* C8 (amended): no step of a validate thread changes the registry, in
\* memory or on disk, the archive directory, the error directory or the
\* error log; and when the handling of a file ends, its temporary copy is
\* gone, unless removing it raised, which ends the run.
ValidateReadOnly ==
    /\ [][\A w \in Workers :
            (wk[w].kind = "validate" /\ wk'[w] # wk[w]) =>
                /\ validators' = validators
                /\ processed_files_log' = processed_files_log
                /\ archive_dir' = archive_dir
                /\ error_dir' = error_dir
                /\ error_log' = error_log]_vars
    /\ [](\A w \in Workers :
            wk[w].kind = "validate" =>
                \A k \in 1..Len(Done(w)) :
                    Done(w)[k].in_temp =>
                        /\ Done(w)[k].outcome = "Aborted"
                        /\ k = Len(Done(w))
                        /\ wk[w].pc \in {"abort", "finished"})

\* C8 as stated: whenever the handling of a file in validate mode has ended,
\* its temporary copy no longer exists.
TempCopyRemoved ==
    \A w \in Workers :
        wk[w].kind = "validate" =>
            \A k \in 1..Len(Done(w)) : ~Done(w)[k].in_temp

\* C8 happens: a validate run has ended after a file with an invalid
\* content and a file whose download failed, and nothing is left or written.
ValidatedAndClean ==
    \E w \in Workers :
        /\ wk[w].kind = "validate"
        /\ wk[w].pc = "finished"
        /\ Len(Done(w)) = 2
        /\ Done(w)[1].outcome = "Invalid"
        /\ Done(w)[2].outcome = "DownloadFailed"
        /\ download_dir = {}
        /\ error_dir = {}
        /\ error_log = <<>>

Bullets(evs) == SelectSeq(evs, LAMBDA e : e.kind = "bullet")

\* What C10 says of an audit entry e of the thread w whose content verdict
\* had the errors errs.
RejectedWith(w, e, errs) ==
    /\ errs # <<>>
    /\ e.logged = 1
    /\ error_log[e.log_to].file = e.file
    /\ error_log[e.log_to].msg.joined = [j \in 1..Min(3, Len(errs)) |-> errs[j]]
    /\ error_log[e.log_to].msg.more = (IF Len(errs) > 3 THEN Len(errs) - 3 ELSE 0)
    /\ Len(Bullets(EventsOf(w, e))) = Min(3, Len(errs))
    /\ \A j \in 1..Len(Bullets(EventsOf(w, e))) : Bullets(EventsOf(w, e))[j].err = errs[j]

NameExtension(filename) == SubSeq(filename, Len(filename) - 3, Len(filename))

NameBase(filename) == SubSeq(filename, 1, Len(filename) - 4)

\* C11: the name a file with an accepted name is archived under is its name
\* without the extension, then "_" and the processing date, then the
\* extension the name had.
ArchiveNameKeepsExtension ==
    (call.fn = "archive_name" /\ call.done /\ call.ret.accepted) =>
        call.ret.name = NameBase(call.arg.filename) \o "_" \o call.arg.date
                          \o NameExtension(call.arg.filename)

\* C12: in process mode, when the archive step of a valid file fails, in the
\* move or in the registry write after it, one entry was appended to the
\* error log for the file, the file is not in the download directory, it
\* was counted once as rejected and not as archived, and its name is not in
\* the registry.
ArchiveFailureHandled ==
    \A w \in Workers :
        wk[w].kind = "process" =>
            \A k \in 1..Len(Done(w)) :
                Done(w)[k].outcome = "ArchiveFailed" =>
                    /\ Done(w)[k].logged = 1
                    /\ error_log[Done(w)[k].log_to].file = Done(w)[k].file
                    /\ ~Done(w)[k].in_download
                    /\ Done(w)[k].err = 1
                    /\ Done(w)[k].ok = 0
                    /\ ~Done(w)[k].in_registry

\* The thread w takes a step of the handling of a file whose download
\* failed: the failing download itself, or the handler of its exception.
DownloadFailing(w) ==
    /\ wk[w].kind = "process"
    /\ wk'[w] # wk[w]
    /\ \/ wk'[w].pc = "fatal" /\ wk'[w].raised = "download"
       \/ wk[w].pc = "fatal" /\ wk[w].raised = "download"

\* C13 (amended): in process mode, when the download of a file fails,
\* before or after the local file was created, nothing is placed in the
\* archive or the error directory and the registry and the error log stay
\* as they are; the handler puts one error event and counts the file once
\* as an error, and then either the file is not in the download directory
\* and the thread is at the next file, or removing the file raised, the
\* file is still there and the run ends.
DownloadFailureHandled ==
    [][\A w \in Workers :
          DownloadFailing(w) =>
             /\ archive_dir' = archive_dir
             /\ error_dir' = error_dir
             /\ validators' = validators
             /\ processed_files_log' = processed_files_log
             /\ error_log' = error_log
             /\ wk'[w].processed_count = wk[w].processed_count
             /\ wk[w].pc = "fatal" =>
                  /\ produced'[w] =
                       Append(produced[w], [run |-> w] @@ Simple("error", "fatal_error"))
                  /\ wk'[w].error_count = wk[w].error_count + 1
                  /\ \/ /\ wk'[w].pc = "loop"
                        /\ wk'[w].i = wk[w].i + 1
                        /\ CurrentFile(w) \notin download_dir'
                        /\ Done(w)'[Len(Done(w)')].outcome = "DownloadFailed"
                     \/ /\ wk'[w].pc = "abort"
                        /\ CurrentFile(w) \in download_dir'
                        /\ download_dir' = download_dir]_vars

\* C13 as stated: after the handler of a failed download the file is not in
\* the download directory and the thread is at the next file.
DownloadFailureContinues ==
    [][\A w \in Workers :
          (DownloadFailing(w) /\ wk[w].pc = "fatal") =>
             /\ wk'[w].pc = "loop"
             /\ wk'[w].i = wk[w].i + 1
             /\ CurrentFile(w) \notin download_dir']_vars

\* C13 happens: the download of the first file failed, leaving nothing and
\* counted once, and the run went on to reject the second for its name.
DownloadFailedThenNext ==
    \E w \in Workers :
        /\ wk[w].kind = "process"
        /\ wk[w].pc = "finished"
        /\ Len(Done(w)) = 2
        /\ Done(w)[1].outcome = "DownloadFailed"
        /\ Done(w)[1].err = 1
        /\ ~Done(w)[1].in_download
        /\ Done(w)[2].outcome = "FilenameRejected"
        /\ wk[w].error_count = 2

\* The places in what a thread has put of the events with the tag.
TagPlaces(evs, tag) == {i \in 1..Len(evs) : evs[i].tag = tag}

\* The files of a thread's list that it has not skipped.
NotSkipped(w) == {k \in 1..Len(Done(w)) : Done(w)[k].outcome # "Skipped"}

\* C14: a process run that has gone through its whole list has put exactly
\* one summary event, after the events of every file, and the two counts it
\* shows add up to the number of files that were not skipped.
ProcessCountsPartition ==
    \A w \in Workers :
        (/\ wk[w].kind = "process"
         /\ wk[w].pc \in {"complete", "finished"}
         /\ ~Aborted(w)) =>
            /\ Cardinality(TagPlaces(produced[w], "summary")) = 1
            /\ \A p \in TagPlaces(produced[w], "summary") :
                 /\ \A k \in 1..Len(Done(w)) : Done(w)[k].to < p
                 /\ produced[w][p].n + produced[w][p].m = Cardinality(NotSkipped(w))

\* C15: a validate run that has gone through its whole list has put exactly
\* one summary event, and the two counts it shows add up to the number of
\* files that were not skipped: each of them is counted once, as valid or as
\* invalid.
ValidateCountsPartition ==
    \A w \in Workers :
        (/\ wk[w].kind = "validate"
         /\ wk[w].pc \in {"complete", "finished"}
         /\ ~Aborted(w)) =>
            /\ Cardinality(TagPlaces(produced[w], "summary")) = 1
            /\ \A p \in TagPlaces(produced[w], "summary") :
                 produced[w][p].n + produced[w][p].m = Cardinality(NotSkipped(w))

\* _validate_csv_content has returned from the call.
Returned == call.fn = "validate_csv_content" /\ call.done

\* The rows of the file the call is on.
Rows == call.arg.content.rows

\* The file is delivered as text and its first row is the header, so the
\* data rows are scanned.
Scanned ==
    /\ Returned
    /\ call.arg.readable
    /\ call.arg.content.utf8
    /\ Rows # <<>>
    /\ Rows[1] = expected_fields

\* The file cut after its first row.
FirstRowOnly(rows) == IF rows = <<>> THEN <<>> ELSE <<rows[1]>>

\* C16: for the empty file and for every file whose first row is not the
\* header, the verdict is invalid with exactly one error and no valid
\* record; when the file is delivered as text the error is the one of the
\* empty file or of the header, no row is scanned, and the verdict is that
\* of the first row alone, whatever the rows after it.
HeaderMismatchVerdict ==
    (Returned /\ (Rows = <<>> \/ Rows[1] # expected_fields)) =>
        /\ ~call.ret.valid
        /\ Len(call.ret.errors) = 1
        /\ call.ret.count = 0
        /\ (call.arg.readable /\ call.arg.content.utf8) =>
             /\ call.ret.errors[1].defects =
                  (IF Rows = <<>> THEN <<"empty">> ELSE <<"header">>)
             /\ \A j \in 1..Len(call.ret.notes) :
                  call.ret.notes[j].kind \in
                     {"validating_content", "file_empty", "header_mismatch"}
             /\ call.ret = ValidateCsvContent([utf8 |-> TRUE, rows |-> FirstRowOnly(Rows)], TRUE)

\* C16 happens: a file whose first row has the header's names in another
\* order, followed by a conforming and a defective row, got the header
\* error alone.
HeaderMismatchSeen ==
    /\ Returned
    /\ call.arg.readable
    /\ call.arg.content.utf8
    /\ Len(Rows) = 3
    /\ Rows[1] = [expected_fields EXCEPT ![5] = "EndDate", ![6] = "StartDate"]
    /\ Rows[2] = GoodRow("P1")
    /\ Len(Rows[3]) = 3
    /\ call.ret.errors = <<[row |-> 0, defects |-> <<"header">>]>>

\* The (StartDate, EndDate) of the rows tried where both are dates and the
\* end is not before the start.
DatesInOrder ==
    {<<"2024-01-01", "2024-01-02">>, <<"2024-01-01", "2024-01-01">>,
     <<"2023-12-31", "2024-01-01">>, <<"2024-02-29", "2024-03-01">>,
     <<"2024-1-5", "2024-01-06">>}

\* Those where both are dates and the end is before the start.
DatesReversed ==
    {<<"2024-01-02", "2024-01-01">>, <<"2024-12-31", "2024-01-01">>,
     <<"2024-03-10", "2024-03-09">>}

\* The dosage texts of the rows tried that int() reads as a positive integer.
PositiveDosages == {"10", " 7 ", "1_0", "+3"}

\* Row i has nine fields and an earlier nine-field row has its
\* (PatientID, TrialCode, DrugCode).
EarlierSameKey(rows, i) ==
    \E j \in 2..(i - 1) :
        /\ Len(rows[j]) = 9
        /\ <<rows[j][1], rows[j][2], rows[j][3]>> = <<rows[i][1], rows[i][2], rows[i][3]>>

\* Row i has nine fields and an earlier nine-field row has its key: the
\* three texts with a "_" between them.
EarlierKey(rows, i) ==
    \E j \in 2..(i - 1) :
        /\ Len(rows[j]) = 9
        /\ rows[j][1] \o "_" \o rows[j][2] \o "_" \o rows[j][3]
             = rows[i][1] \o "_" \o rows[i][2] \o "_" \o rows[i][3]

\* The messages a nine-field row is due, told from the row's texts alone.
DefectsDue(rows, i) ==
    (IF \E f \in 1..9 : rows[i][f] = "" THEN {"missing"} ELSE {})
    \cup (IF rows[i][4] \notin PositiveDosages THEN {"dosage"} ELSE {})
    \cup (IF <<rows[i][5], rows[i][6]>> \notin DatesInOrder THEN {"date"} ELSE {})
    \cup (IF rows[i][7] \notin {"Improved", "No Change", "Worsened"} THEN {"outcome"} ELSE {})
    \cup (IF EarlierKey(rows, i) THEN {"duplicate"} ELSE {})

\* Row i is a data row without defect.
Conforming(rows, i) == Len(rows[i]) = 9 /\ DefectsDue(rows, i) = {}

\* C17: on every return path of _validate_csv_content valid is true exactly
\* when errors is empty; a file that is not scanned is invalid, and a
\* scanned file is valid exactly when every data row conforms, however many
\* conforming rows it has.
ValidIffNoErrors ==
    Returned =>
        /\ call.ret.valid <=> (call.ret.errors = <<>>)
        /\ ~Scanned => ~call.ret.valid
        /\ Scanned =>
             (call.ret.valid <=> \A i \in 2..Len(Rows) : Conforming(Rows, i))

\* C17 happens: a file with one conforming and one defective row is
\* invalid with one valid record.
InvalidDespiteValidRow ==
    /\ Scanned
    /\ Len(Rows) = 3
    /\ Conforming(Rows, 2)
    /\ ~Conforming(Rows, 3)
    /\ ~call.ret.valid
    /\ call.ret.errors # <<>>
    /\ call.ret.count = 1

\* The entries of the returned errors list that are about row i.
EntriesOf(i) == {e \in 1..Len(call.ret.errors) : call.ret.errors[e].row = i}

\* The defect a message of an entry tells.
MessageKind(m) ==
    CASE m = "missing_fields" -> "missing"
      [] m \in {"dosage", "dosage_nonnumeric"} -> "dosage"
      [] m \in {"date_format", "date_range"} -> "date"
      [] OTHER -> m

\* The defects the messages of entry e tell.
KindsOf(e) ==
    {MessageKind(call.ret.errors[e].defects[j]) : j \in 1..Len(call.ret.errors[e].defects)}

\* The nine-field data rows of the file.
NineFieldRows == {i \in 2..Len(Rows) : Len(Rows[i]) = 9}

\* C18, amended: a nine-field row with k >= 1 defects adds one entry to
\* errors, which holds k messages, one for each of its defects, and the row
\* is not counted valid; a row without defect adds no entry and is counted.
OneEntryPerDefectiveRow ==
    Scanned =>
        /\ \A i \in NineFieldRows :
             IF DefectsDue(Rows, i) = {} THEN EntriesOf(i) = {}
             ELSE /\ Cardinality(EntriesOf(i)) = 1
                  /\ \A e \in EntriesOf(i) :
                       /\ Len(call.ret.errors[e].defects) = Cardinality(DefectsDue(Rows, i))
                       /\ KindsOf(e) = DefectsDue(Rows, i)
        /\ call.ret.count = Cardinality({i \in NineFieldRows : DefectsDue(Rows, i) = {}})

\* C18 as stated: a nine-field row with k defects adds k entries to errors.
OneEntryPerDefect ==
    Scanned =>
        \A i \in NineFieldRows : Cardinality(EntriesOf(i)) = Cardinality(DefectsDue(Rows, i))

\* C18 happens: the second of two rows has the five defects and got one
\* entry of five messages, the first row being the one valid record.
FiveDefectsOneEntry ==
    /\ Scanned
    /\ Len(Rows) = 3
    /\ Conforming(Rows, 2)
    /\ Len(Rows[3]) = 9
    /\ Cardinality(DefectsDue(Rows, 3)) = 5
    /\ Len(call.ret.errors) = 1
    /\ Len(call.ret.errors[1].defects) = 5
    /\ call.ret.count = 1

\* The messages about the dosage among the entries of row i.
DosageMessages(i) ==
    {<<e, j>> \in EntriesOf(i) \X (1..9) :
        /\ j <= Len(call.ret.errors[e].defects)
        /\ call.ret.errors[e].defects[j] \in {"dosage", "dosage_nonnumeric"}}

\* The nine-field rows whose dosage is not a positive integer.
BadDosageRows == {i \in NineFieldRows : Rows[i][4] \notin PositiveDosages}

\* The numbers the events of the kind carry, among the events of the call.
NotedCounts(kind) ==
    {call.ret.notes[j].n : j \in {k \in 1..Len(call.ret.notes) : call.ret.notes[k].kind = kind}}

\* C19: a nine-field row whose dosage is not an integer, or is an integer
\* that is not positive, has exactly one message about the dosage and is not
\* counted valid, and the dosage errors counted are the number of such rows;
\* a row whose dosage is a positive integer has no message about the dosage.
OneDosageError ==
    Scanned =>
        /\ \A i \in NineFieldRows :
             Cardinality(DosageMessages(i)) = (IF i \in BadDosageRows THEN 1 ELSE 0)
        /\ call.ret.count <= Cardinality(NineFieldRows \ BadDosageRows)
        /\ NotedCounts("dosage_errors") =
             (IF BadDosageRows = {} THEN {} ELSE {Cardinality(BadDosageRows)})

\* C19 happens: rows whose only defect is the dosage, '1.5' and then '0',
\* got one dosage message each and none is counted valid.
DosageErrorsSeen ==
    /\ Scanned
    /\ Len(Rows) = 3
    /\ Len(Rows[2]) = 9
    /\ Rows[2][4] = "1.5"
    /\ Rows[3] = CsvRow("P2", "0", <<"2024-01-01", "2024-01-02">>, "Improved", "None")
    /\ call.ret.errors = <<[row |-> 2, defects |-> <<"dosage_nonnumeric">>],
                           [row |-> 3, defects |-> <<"dosage">>]>>
    /\ call.ret.count = 0

\* The entries of row i have a message of duplicate.
FlaggedDuplicate(i) == \E e \in EntriesOf(i) : "duplicate" \in KindsOf(e)

MessagesOf(i, kind) ==
    {<<e, j>> \in EntriesOf(i) \X (1..9) :
        /\ j <= Len(call.ret.errors[e].defects)
        /\ call.ret.errors[e].defects[j] = kind}

\* The (StartDate, EndDate) of row i.
DatesOf(i) == <<Rows[i][5], Rows[i][6]>>

\* C21: a nine-field row gets one date-format message and no date-range
\* message when one of its dates is not a date, one date-range message and
\* no date-format message when both are dates and the end is before the
\* start, and no date message when the end is the start or later; a file
\* of one row whose only defect is an end before the start is invalid with
\* one error and no valid record.
OneDateError ==
    Scanned =>
        /\ \A i \in NineFieldRows :
             /\ Cardinality(MessagesOf(i, "date_format")) =
                  (IF DatesOf(i) \notin DatesInOrder \cup DatesReversed THEN 1 ELSE 0)
             /\ Cardinality(MessagesOf(i, "date_range")) =
                  (IF DatesOf(i) \in DatesReversed THEN 1 ELSE 0)
        /\ (/\ Len(Rows) = 2
            /\ Len(Rows[2]) = 9
            /\ DatesOf(2) \in DatesReversed
            /\ DefectsDue(Rows, 2) = {"date"})
           => /\ ~call.ret.valid
              /\ call.ret.errors = <<[row |-> 2, defects |-> <<"date_range">>]>>
              /\ call.ret.count = 0

\* C21 happens: the one row of a file ends in the year of its start but
\* before it, and has the date-range message alone.
DateRangeSeen ==
    /\ Scanned
    /\ Len(Rows) = 2
    /\ Len(Rows[2]) = 9
    /\ DatesOf(2) = <<"2024-12-31", "2024-01-01">>
    /\ ~call.ret.valid
    /\ call.ret.errors = <<[row |-> 2, defects |-> <<"date_range">>]>>
    /\ call.ret.count = 0

\* The places of the line breaks of a text.
LineBreaks(text) == {i \in 1..Len(text) : CharAt(text, i) \in {"\n", "\r"}}

\* What a call of _log_error added to the error log.
Appended == SubSeq(call.ret.log, Len(call.arg.log) + 1, Len(call.ret.log))

\* C22: a call of _log_error leaves the earlier text of the error log as it
\* was and where it was and appends to it exactly one line, of the form
\* '[timestamp] GUID: <guid> | File: <filename> | Error: <message>', with
\* the guid it returns.
LogAppendsOneLine ==
    (call.fn = "log_error" /\ call.done) =>
        /\ SubSeq(call.ret.log, 1, Len(call.arg.log)) = call.arg.log
        /\ Appended = "[" \o call.arg.timestamp \o "] GUID: " \o call.ret.guid
                          \o " | File: " \o call.arg.filename
                          \o " | Error: " \o call.arg.message \o "\n"
        /\ LineBreaks(Appended) = {Len(Appended)}

\* The text of the registry file is its names, each once, in ascending
\* order, with a line break between two names.
SortedLines(text, names) ==
    /\ Range(SplitLines(text)) = names
    /\ Len(SplitLines(text)) = Cardinality(names)
    /\ \A i, j \in 1..Len(SplitLines(text)) :
         i < j => StrLess(SplitLines(text)[i], SplitLines(text)[j])
    /\ Cardinality(LineBreaks(text)) = Cardinality(names) - 1

\* C23: after a successful _save_processed_file the registry in memory is
\* the one before with the filename, the file holds it as sorted lines,
\* and _load_processed_files of the file gives the registry in memory; the
\* add of a filename that is in the registry leaves the registry as it was.
RegistryRoundTrip ==
    (call.fn = "save_processed_file" /\ call.done) =>
        /\ call.ret.processed_files = call.arg.processed_files \cup {call.arg.filename}
        /\ SortedLines(call.ret.text, call.ret.processed_files)
        /\ call.ret.reloaded = call.ret.processed_files
        /\ call.arg.filename \in call.arg.processed_files =>
             call.ret.processed_files = call.arg.processed_files

\* C23 happens: the add of a name in capitals to a registry that holds a
\* name in small letters and an empty name wrote the empty line, then the
\* name in capitals, then the other, and the reload gave the three.
RegistryRewritten ==
    /\ call.fn = "save_processed_file"
    /\ call.done
    /\ call.arg.processed_files = {F_MANY, ""}
    /\ call.arg.filename = F_OK
    /\ call.ret.text = "\n" \o F_OK \o "\n" \o F_MANY
    /\ call.ret.reloaded = {"", F_OK, F_MANY}

\* The whole name is CLINICALDATA, 14 decimal digits and .CSV, the letters
\* in any case.
WholeNameFits(filename) ==
    /\ Len(filename) = 30
    /\ Upper(SubSeq(filename, 1, 12)) = "CLINICALDATA"
    /\ \A i \in 13..26 : CharAt(filename, i) \in Digits
    /\ Upper(SubSeq(filename, 27, 30)) = ".CSV"

\* C24: _validate_filename_pattern accepts a name exactly when the whole
\* name is the prefix, 14 decimal digits and the extension, in any case of
\* the letters.
AcceptsExactlyPattern ==
    (call.fn = "archive_name" /\ call.done) =>
        (call.ret.accepted <=> WholeNameFits(call.arg.filename))

\* The names that end in a dot and the letters c, s, v in any case.
EndInCsv(names) ==
    {f \in names :
        \E e \in {".csv", ".csV", ".cSv", ".cSV", ".Csv", ".CsV", ".CSv", ".CSV"} :
            Len(f) >= 4 /\ SubSeq(f, Len(f) - 3, Len(f)) = e}

\* C25: get_file_list returns the names of the server that end in .csv in
\* any case, each once, in ascending order; when the processor is not
\* connected or the listing fails it returns the empty list and puts one
\* error event.
ListsCsvSorted ==
    (call.fn = "get_file_list" /\ call.done) =>
        IF /\ call.arg.processor.ftp # "none"
           /\ call.arg.processor.connected
           /\ call.arg.nlst_ok
        THEN /\ Range(call.ret.files) = EndInCsv(call.arg.names)
             /\ Len(call.ret.files) = Cardinality(EndInCsv(call.arg.names))
             /\ \A i, j \in 1..Len(call.ret.files) :
                  i < j => StrLess(call.ret.files[i], call.ret.files[j])
             /\ \A k \in 1..Len(call.ret.events) : call.ret.events[k].tag # "error"
        ELSE /\ call.ret.files = <<>>
             /\ Len(call.ret.events) = 1
             /\ call.ret.events[1].tag = "error"

\* C25 happens: of six names the four that end in .csv in some case came
\* back, capitals first.
ListedCsv ==
    /\ call.fn = "get_file_list"
    /\ call.done
    /\ call.arg.names = {"b.csv", "B.CSV", "a.Csv", "a.csv.bak", "notes.txt", "A.cSV"}
    /\ call.ret.files = <<"A.cSV", "B.CSV", "a.Csv", "b.csv">>

\* The events of the tag among those a call of connect put.
ConnectEvents(tag) == {k \in 1..Len(call.ret.events) : call.ret.events[k].tag = tag}

\* C26: when the opening of the session or the login fails, connect returns
\* False with connected false and one error event, and a connect after it
\* can succeed; when only the change into the remote directory fails,
\* connect puts a warning and returns True with connected true; when no
\* call fails it puts neither.
ConnectFailureRecoverable ==
    (call.fn = "connect" /\ call.done) =>
        /\ call.arg.outcome \in {"fail_open", "fail_login"} =>
             /\ ~call.ret.ok
             /\ ~call.ret.processor.connected
             /\ Len(call.ret.events) = 1
             /\ Cardinality(ConnectEvents("error")) = 1
             /\ Connect(call.ret.processor, "ok", TRUE).ok
             /\ Connect(call.ret.processor, "ok", TRUE).processor.connected
        /\ call.arg.outcome = "ok" =>
             /\ call.ret.ok
             /\ call.ret.processor.connected
             /\ ConnectEvents("error") = {}
             /\ Cardinality(ConnectEvents("warning")) =
                  (IF call.arg.processor.remote_dir # "" /\ ~call.arg.cwd_ok THEN 1 ELSE 0)

\* C26 happens: a processor left by a failed connect connects, the change
\* into its remote directory failing: a warning, then success.
ConnectedWithWarning ==
    /\ call.fn = "connect"
    /\ call.done
    /\ call.arg.processor.ftp = "dead"
    /\ ~call.arg.processor.connected
    /\ call.arg.processor.remote_dir = "incoming"
    /\ call.arg.outcome = "ok"
    /\ ~call.arg.cwd_ok
    /\ call.ret.ok
    /\ call.ret.processor.connected
    /\ call.ret.events[1].tag = "warning"

DisconnectClearsConnected ==
    (call.fn = "disconnect" /\ call.done) => ~call.ret.processor.connected

\* C29: a nine-field row is flagged duplicate only when an earlier
\* nine-field row of the file has the same (PatientID, TrialCode, DrugCode).
DuplicateOnlySameTriple ==
    Scanned =>
        \A i \in NineFieldRows : FlaggedDuplicate(i) => EarlierSameKey(Rows, i)

\* C28: the registry file only grows: a name it holds is in it after every
\* step of the program.
RegistryFileGrows ==
    [][LoadProcessedFiles(processed_files_log)
         \subseteq LoadProcessedFiles(processed_files_log')]_vars

\* How many entries of the shared results list of the thread test hold the text.
TimesRecorded(text) ==
    Cardinality({k \in 1..Len(call.results) : call.results[k] = text})

\* C31: when the three operations are started as threads and joined, each has
\* run to completion and has recorded exactly one result, so the returned list
\* has exactly three entries (one per operation) in every interleaving: in
\* every state each thread's text is in the list once if the thread has made
\* its append and not at all before; no interleaving stops before the return;
\* and at the return all three threads have ended and the list returned is the
\* shared list with its three entries.
ThreeResultsAfterJoins ==
    call.fn = "run_thread_tests" =>
        /\ TimesRecorded("connect_and_load_files executed")
              = IF call.threads[1] \in {"appended", "finished"} THEN 1 ELSE 0
        /\ TimesRecorded("refresh_files executed")
              = IF call.threads[2] \in {"appended", "finished"} THEN 1 ELSE 0
        /\ TimesRecorded("validate_selected_worker executed for ['test_file.csv']")
              = IF call.threads[3] \in {"appended", "finished"} THEN 1 ELSE 0
        /\ ~call.done => ENABLED NextThreads
        /\ call.main.pc = "return" =>
              /\ \A t \in 1..3 : call.threads[t] = "finished"
              /\ Len(call.results) = 3
        /\ call.done =>
              /\ call.ret.output = call.results
              /\ Len(call.ret.output) = 3
              /\ call.ret.passed

\* The three threads made their appends in the reverse of the order they were
\* started in, and the joined list was returned.
JoinedInReverseOrder ==
    /\ call.fn = "run_thread_tests"
    /\ call.done
    /\ call.ret.output = <<"validate_selected_worker executed for ['test_file.csv']",
                           "refresh_files executed",
                           "connect_and_load_files executed">>

====
